---------------------------- MODULE Spec2Model ----------------------------
(***************************************************************************)
(* Shruti-1 synthesis engine: parameter dispatch, LFO tempo resync, the    *)
(* voice's pitch/portamento state machine, the modulation matrix and the   *)
(* audio rendering task, as state machines over the engine's static state. *)
(*                                                                         *)
(* Integers keep the width of the C++ types: uint8_t values are 0..255,    *)
(* int8_t and int16_t values are obtained with ToInt8 / ToInt16.           *)
(***************************************************************************)
EXTENDS Integers, Naturals, Sequences, FiniteSets, TLC

(***************************************************************************)
(* Fixed-width integer conversions.                                        *)
(***************************************************************************)
ToUint8(x) == x % 256

ToInt8(x) == ((x + 128) % 256) - 128

ToUint16(x) == x % 65536

ToInt16(x) == ((x + 32768) % 65536) - 32768

\* Arithmetic right shift of a (possibly negative) integer.
Shr(x, k) == x \div (2 ^ k)

(***************************************************************************)
(* hardware/utils/op.h                                                     *)
(***************************************************************************)
\* Clip(value, min, max)
Clip(value, min, max) ==
  LET clipped[v \in Int] == IF v < min THEN min ELSE IF v > max THEN max ELSE v
  IN clipped[value]

\* uint8_t Mix(uint8_t a, uint8_t b, uint8_t balance)
Mix(a, b, balance) == Shr(a * (255 - balance) + b * balance, 8)

\* uint8_t MulScale8(uint8_t a, uint8_t b)
MulScale8(a, b) == Shr(a * b, 8)

\* int8_t SignedMulScale8(int8_t a, uint8_t b): high byte of the signed product.
SignedMulScale8(a, b) == ToInt8(Shr(a * b, 8))

\* int16_t SignedUnsignedMul(int8_t a, uint8_t b)
SignedUnsignedMul(a, b) == ToInt16(a * b)

\* uint16_t UnsignedUnsignedMul(uint8_t a, uint8_t b)
UnsignedUnsignedMul(a, b) == ToUint16(a * b)

\* uint8_t ShiftRight6(uint16_t value)
ShiftRight6(value) == ToUint8(Shr(ToUint16(value), 6))

(***************************************************************************)
(* Patch layout: parameter index i is the byte at offset i + 1 of the      *)
(* Patch structure (offset 0 is keep_me_at_the_top).  The order is the     *)
(* order of the default patch image.                                       *)
(***************************************************************************)
PRM_OSC_SHAPE_1 == 0
PRM_OSC_SHAPE_2 == 1
PRM_OSC_PARAMETER_1 == 2
PRM_OSC_PARAMETER_2 == 3
PRM_OSC_RANGE_1 == 4
PRM_OSC_RANGE_2 == 5
PRM_OSC_OPTION_1 == 6
PRM_OSC_OPTION_2 == 7
PRM_MIX_BALANCE == 8
PRM_MIX_SUB_OSC == 9
PRM_MIX_NOISE == 10
PRM_MIX_SUB_OSC_SHAPE == 11
PRM_FILTER_CUTOFF == 12
PRM_FILTER_RESONANCE == 13
PRM_FILTER_ENV == 14
PRM_FILTER_LFO == 15
PRM_ENV_ATTACK_1 == 16
PRM_ENV_DECAY_1 == 18
PRM_ENV_SUSTAIN_1 == 20
PRM_ENV_RELEASE_1 == 22
PRM_LFO_WAVE_1 == 24
PRM_LFO_RATE_1 == 26
PRM_LFO_RATE_2 == 27
PRM_MOD_SOURCE == 28
PRM_ARP_TEMPO == 70
PRM_ARP_OCTAVE == 71
PRM_ARP_PATTERN == 72
PRM_ARP_SWING == 73
PRM_SEQUENCE == 74
PRM_KBD_OCTAVE == 82
PRM_KBD_RAGA == 83
PRM_KBD_PORTAMENTO == 84
PRM_KBD_MIDI_CHANNEL == 85
PRM_NAME == 86
PRM_ARP_PATTERN_SIZE == 94

\* sizeof(Patch) - 1: the number of parameter bytes after keep_me_at_the_top.
kNumPatchParameters == 95

kModulationMatrixSize == 14
kSavedModulationMatrixSize == 10

kNumLfos == 2
kNumEnvelopes == 2

PatchIndex == 0 .. (kNumPatchParameters - 1)

\* Index of the fields of modulation_matrix.modulation[i].
ModSource(i) == PRM_MOD_SOURCE + 3 * i
ModDestination(i) == PRM_MOD_SOURCE + 3 * i + 1
ModAmount(i) == PRM_MOD_SOURCE + 3 * i + 2

(***************************************************************************)
(* Modulation sources and destinations.                                    *)
(***************************************************************************)
MOD_SRC_LFO_1 == 0
MOD_SRC_LFO_2 == 1
MOD_SRC_SEQ == 2
MOD_SRC_STEP == 3
MOD_SRC_WHEEL == 4
MOD_SRC_PITCH_BEND == 5
MOD_SRC_ASSIGNABLE_1 == 6
MOD_SRC_ASSIGNABLE_2 == 7
MOD_SRC_CV_1 == 8
MOD_SRC_CV_2 == 9
MOD_SRC_RANDOM == 10
MOD_SRC_ENV_1 == 11
MOD_SRC_ENV_2 == 12
MOD_SRC_VELOCITY == 13
MOD_SRC_NOTE == 14
MOD_SRC_GATE == 15

kNumGlobalModulationSources == MOD_SRC_RANDOM + 1
kNumVoiceModulationSources == MOD_SRC_GATE + 1 - kNumGlobalModulationSources
kNumModulationSources == kNumGlobalModulationSources + kNumVoiceModulationSources

MOD_DST_FILTER_CUTOFF == 0
MOD_DST_VCA == 1
MOD_DST_PWM_1 == 2
MOD_DST_PWM_2 == 3
MOD_DST_VCO_1 == 4
MOD_DST_VCO_2 == 5
MOD_DST_VCO_1_2_FINE == 6
MOD_DST_MIX_BALANCE == 7
MOD_DST_MIX_NOISE == 8
MOD_DST_MIX_SUB_OSC == 9
MOD_DST_FILTER_RESONANCE == 10

kNumModulationDestinations == MOD_DST_FILTER_RESONANCE + 1

GlobalSources == 0 .. (kNumGlobalModulationSources - 1)
VoiceSources == 0 .. (kNumVoiceModulationSources - 1)
Destinations == 0 .. (kNumModulationDestinations - 1)
AdditiveDestinations == Destinations \ {MOD_DST_VCA}

(***************************************************************************)
(* The default patch (empty_patch), parameter bytes only.                  *)
(***************************************************************************)
WAVEFORM_SAW == 3
WAVEFORM_SQUARE == 2
LFO_WAVEFORM_TRIANGLE == 0

empty_patch ==
  << WAVEFORM_SAW, WAVEFORM_SQUARE, 0, 32,
     0, 0, 0, 0,
     24, 0, 0, WAVEFORM_SQUARE,
     110, 0, 10, 0,
     20, 0,
     60, 40,
     20, 80,
     60, 40,
     LFO_WAVEFORM_TRIANGLE, LFO_WAVEFORM_TRIANGLE, 96, 3,
     MOD_SRC_LFO_1, MOD_DST_VCO_1, 0,
     MOD_SRC_LFO_1, MOD_DST_VCO_2, 0,
     MOD_SRC_LFO_1, MOD_DST_PWM_1, 0,
     MOD_SRC_LFO_1, MOD_DST_PWM_2, 0,
     MOD_SRC_LFO_2, MOD_DST_MIX_BALANCE, 0,
     MOD_SRC_NOTE, MOD_DST_FILTER_CUTOFF, 58,
     MOD_SRC_ENV_2, MOD_DST_VCA, 63,
     MOD_SRC_VELOCITY, MOD_DST_VCA, 16,
     MOD_SRC_PITCH_BEND, MOD_DST_VCO_1_2_FINE, 32,
     MOD_SRC_LFO_1, MOD_DST_VCO_1_2_FINE, 16,
     MOD_SRC_ASSIGNABLE_1, MOD_DST_PWM_1, 0,
     MOD_SRC_ASSIGNABLE_2, MOD_DST_FILTER_CUTOFF, 0,
     MOD_SRC_CV_1, MOD_DST_FILTER_CUTOFF, 0,
     MOD_SRC_CV_2, MOD_DST_FILTER_CUTOFF, 0,
     120, 0, 0, 0,
     0, 0, 255, 255, 204, 204, 68, 68,
     0, 0, 0, 1,
     110, 101, 119, 32, 32, 32, 32, 32, 16 >>

\* ResourcesManager::Load(empty_patch, 0, &patch_); the leading byte
\* (keep_me_at_the_top) is left out of the tuple above.
DefaultPatch == [i \in PatchIndex |-> empty_patch[i + 1]]

(***************************************************************************)
(* Lookup tables (hardware/resources): only their contract is known here,  *)
(* every entry is nonzero.  A few representative entries are modelled.     *)
(***************************************************************************)
\* lut_res_env_portamento_increments[kbd_portamento]: 16-bit, decreasing.
PortamentoIncrement(p) ==
  IF p = 0 THEN 65535
  ELSE IF p < 32 THEN 16384
  ELSE IF p < 64 THEN 4096
  ELSE IF p < 96 THEN 300
  ELSE 9

\* lut_res_lfo_increments[rate - 16]: 16-bit, increasing with the rate.
LfoIncrement(i) == IF i < 64 THEN 4096 ELSE 16384

\* LUT_RES_SCALE_JUST + raga - 1: signed offsets per note class (note % 12).
ScaleOffset(raga, noteclass) ==
  IF raga = 1
  THEN << 0, 15, 5, 20, -18, -3, -13, 3, 17, -20, 23, -15 >>[noteclass + 1]
  ELSE << 0, -64, 0, 32, 0, 0, -32, 0, 64, 0, 127, -128 >>[noteclass + 1]

(***************************************************************************)
(* Envelope (hardware/shruti/envelope.h): stages and the 14-bit level.     *)
(***************************************************************************)
ATTACK == 0
RELEASE == 3
DEAD == 4

\* Representative 14-bit envelope levels produced by Envelope::Render.
EnvelopeLevels == {0, 16383}

\* The state Envelope::Init leaves an envelope in.
EnvelopeInit == [attack |-> 0, decay |-> 0, sustain |-> 0, release |-> 0,
                 stage |-> DEAD, value |-> 0]

\* Envelope::Update(attack, decay, sustain, release)
EnvelopeUpdate(e, a, d, s, r) ==
  [e EXCEPT !.attack = a, !.decay = d, !.sustain = s, !.release = r]

\* Envelope::Trigger(stage)
EnvelopeTrigger(e, stage) == [e EXCEPT !.stage = stage]

\* Envelope::Render(): the outcomes one rendering step can have.  The level
\* moves within the 14-bit range.  The engine reads the stage only through
\* dead() and stage() >= RELEASE, so the stages before the release are kept
\* as the one the trigger set; a releasing envelope stays or dies at level 0;
\* a dead envelope is at 0.
EnvelopeRender(e) ==
  CASE e.stage = DEAD -> {[e EXCEPT !.value = 0]}
    [] e.stage = RELEASE ->
         {[e EXCEPT !.value = v] : v \in EnvelopeLevels}
           \cup {[e EXCEPT !.stage = DEAD, !.value = 0]}
    [] OTHER -> {[e EXCEPT !.value = v] : v \in EnvelopeLevels}

\* Envelope::dead()
EnvelopeDead(e) == e.stage = DEAD

(***************************************************************************)
(* State.                                                                  *)
(***************************************************************************)
VARIABLES
  patch_,                    \* SynthesisEngine::patch_, by parameter index
  modulation_sources_,       \* SynthesisEngine::modulation_sources_
  nrpn_parameter_number_,
  num_lfo_reset_steps_,
  lfo_reset_counter_,
  lfo_to_reset_,             \* the set of bits set in lfo_to_reset_
  lfo_,                      \* per LFO: phase, increment, waveform
  controller_,               \* the note controller's own state
  envelope_,                 \* Voice::envelope_
  dead_,
  pitch_increment_,
  pitch_target_,
  pitch_value_,
  voice_modulation_sources_, \* Voice::modulation_sources_
  modulation_destinations_,  \* Voice::modulation_destinations_ (bit patterns)
  dst,                       \* the static accumulators of Voice::Control
  signal_,                   \* Voice::signal_
  osc1_phase_msb_,           \* Voice::osc1_phase_msb_
  oscillator_,               \* Osc1, Osc2 and SubOsc
  audio,                     \* the audio buffer and the rendering task's position
  probe,                     \* results of evaluating the matrix on chosen inputs
  rng_state_,                \* Random::rng_state_
  history,                   \* what the last operation was and did
  load_save_buffer_,         \* Patch::load_save_buffer_
  sysex_bytes_received_,
  sysex_reception_checksum_,
  sysex_reception_state_,
  eeprom_,                   \* the EEPROM, one patch image per slot
  midi_io,                   \* the bytes received and not yet read by MidiTask
  transfer,                  \* what was sent and what the last operation did
  undo_buffer_,              \* Patch::undo_buffer_
  current_page_,             \* Editor::current_page_ and the statics below
  last_visited_page_,
  subpage_,
  last_visited_subpage_,
  cursor_,
  action_,
  current_patch_number_,
  previous_patch_number_,
  current_controller_,
  test_note_playing_,
  assign_in_progress_,
  assigned_parameters_,
  parameter_to_assign_,
  edit                       \* what the last operation of the editor was and did

vars == << patch_, modulation_sources_, nrpn_parameter_number_,
           num_lfo_reset_steps_, lfo_reset_counter_, lfo_to_reset_, lfo_,
           controller_, envelope_, dead_, pitch_increment_, pitch_target_,
           pitch_value_, voice_modulation_sources_, modulation_destinations_,
           dst, signal_, osc1_phase_msb_, oscillator_, audio, probe,
           rng_state_, history, load_save_buffer_, sysex_bytes_received_,
           sysex_reception_checksum_, sysex_reception_state_, eeprom_,
           midi_io, transfer, undo_buffer_, current_page_,
           last_visited_page_, subpage_, last_visited_subpage_, cursor_,
           action_, current_patch_number_, previous_patch_number_,
           current_controller_, test_note_playing_, assign_in_progress_,
           assigned_parameters_, parameter_to_assign_, edit >>

storeVars == << load_save_buffer_, sysex_bytes_received_,
                sysex_reception_checksum_, sysex_reception_state_, eeprom_,
                midi_io, transfer >>

editorVars == << undo_buffer_, current_page_, last_visited_page_, subpage_,
                 last_visited_subpage_, cursor_, action_,
                 current_patch_number_, previous_patch_number_,
                 current_controller_, test_note_playing_, assign_in_progress_,
                 assigned_parameters_, parameter_to_assign_, edit >>

engineVars == << patch_, modulation_sources_, nrpn_parameter_number_,
                 num_lfo_reset_steps_, lfo_reset_counter_, lfo_to_reset_, lfo_,
                 controller_ >>

voiceVars == << envelope_, dead_, pitch_increment_, pitch_target_,
                pitch_value_, voice_modulation_sources_,
                modulation_destinations_, dst, signal_, osc1_phase_msb_,
                oscillator_ >>

(***************************************************************************)
(* Voice::Control(): the modulation matrix.                                *)
(***************************************************************************)
\* Lines 466-474: the initial value of each modulated parameter, scaled to
\* 0-16383.  dst[MOD_DST_VCA] is never written.
LoadDestinations(old, P) ==
  [d \in Destinations |->
     CASE d = MOD_DST_FILTER_CUTOFF -> ToInt16(P[PRM_FILTER_CUTOFF] * 128)
       [] d = MOD_DST_PWM_1 -> ToInt16(P[PRM_OSC_PARAMETER_1] * 128)
       [] d = MOD_DST_PWM_2 -> ToInt16(P[PRM_OSC_PARAMETER_2] * 128)
       [] d \in {MOD_DST_VCO_1, MOD_DST_VCO_2, MOD_DST_VCO_1_2_FINE} -> 8192
       [] d = MOD_DST_MIX_BALANCE -> ToInt16(P[PRM_MIX_BALANCE] * 256)
       [] d = MOD_DST_MIX_NOISE -> ToInt16(P[PRM_MIX_NOISE] * 256)
       [] d = MOD_DST_MIX_SUB_OSC -> ToInt16(P[PRM_MIX_SUB_OSC] * 256)
       [] d = MOD_DST_FILTER_RESONANCE -> ToInt16(P[PRM_FILTER_RESONANCE] * 256)
       [] OTHER -> old[d]]

\* The sources for which the modulation is relative (line 505).
RelativeSource(source) ==
  \/ source <= MOD_SRC_LFO_2
  \/ source = MOD_SRC_PITCH_BEND
  \/ source = MOD_SRC_NOTE

\* The rescaling applied at the last evaluated position instead.
EntryAmountAtLastEvaluated(i, P, G) ==
  IF i = kModulationMatrixSize - 1
  THEN SignedMulScale8(ToInt8(P[ModAmount(i)]), G[MOD_SRC_WHEEL])
  ELSE ToInt8(P[ModAmount(i)])
\* Lines 483-488: the amount of entry i; the last saved one follows the wheel.
EntryAmount(i, P, G) ==
  IF i = kSavedModulationMatrixSize - 1
  THEN SignedMulScale8(ToInt8(P[ModAmount(i)]), G[MOD_SRC_WHEEL])
  ELSE ToInt8(P[ModAmount(i)])

\* Lines 494-500: the value of a source, global or voice specific.
SourceValue(source, G, V) ==
  IF source < kNumGlobalModulationSources
  THEN G[source]
  ELSE V[source - kNumGlobalModulationSources]

\* The loop body without the test that skips an entry of amount 0.
ApplyModulationWithoutSkip(acc, i, P, G, V) ==
  LET amount == EntryAmount(i, P, G)
      source == P[ModSource(i)]
      destination == P[ModDestination(i)]
      source_value == SourceValue(source, G, V)
  IN IF destination # MOD_DST_VCA
     THEN LET sum == ToInt16(acc.dst[destination]
                             + SignedUnsignedMul(amount, source_value))
              modulation == IF RelativeSource(source)
                            THEN ToInt16(sum - amount * 128)
                            ELSE sum
          IN [acc EXCEPT !.dst[destination] = Clip(modulation, 0, 16383)]
     ELSE LET a == IF amount < 0 THEN ToInt8(-amount) ELSE amount
              sv == IF amount < 0 THEN ToUint8(255 - source_value)
                                  ELSE source_value
          IN [acc EXCEPT !.vca = MulScale8(acc.vca, Mix(255, sv, ToUint8(a * 4)))]

\* Lines 478-521: one iteration of the loop, on acc = [dst, vca].
ApplyModulation(acc, i, P, G, V) ==
  LET amount == EntryAmount(i, P, G)
      source == P[ModSource(i)]
      destination == P[ModDestination(i)]
      source_value == SourceValue(source, G, V)
  IN IF ToInt8(P[ModAmount(i)]) = 0 THEN acc
     ELSE IF destination # MOD_DST_VCA
     THEN LET sum == ToInt16(acc.dst[destination]
                             + SignedUnsignedMul(amount, source_value))
              modulation == IF RelativeSource(source)
                            THEN ToInt16(sum - amount * 128)
                            ELSE sum
          IN [acc EXCEPT !.dst[destination] = Clip(modulation, 0, 16383)]
     ELSE LET a == IF amount < 0 THEN ToInt8(-amount) ELSE amount
              sv == IF amount < 0 THEN ToUint8(255 - source_value)
                                  ELSE source_value
          IN [acc EXCEPT !.vca = MulScale8(acc.vca, Mix(255, sv, ToUint8(a * 4)))]

\* Lines 477-522: the loop over entries i .. kModulationMatrixSize - 1.
\* acc is looked at once per entry.
Accumulators == [dst : [Destinations -> Int], vca : Int]

RECURSIVE ApplyMatrix(_, _, _, _, _)
ApplyMatrix(acc, i, P, G, V) ==
  LET rest[a \in Accumulators] ==
        IF i >= kModulationMatrixSize THEN a
        ELSE ApplyMatrix(ApplyModulation(a, i, P, G, V), i + 1, P, G, V)
  IN rest[acc]

\* Lines 523-536: the hardcoded filter modulations.
HardcodedFilterModulations(d, P, G, V) ==
  LET env == Clip(ToInt16(d[MOD_DST_FILTER_CUTOFF]
                   + SignedUnsignedMul(ToInt8(P[PRM_FILTER_ENV]),
                       V[MOD_SRC_ENV_1 - kNumGlobalModulationSources])),
                  0, 16383)
      lfo == Clip(ToInt16(env
                   + SignedUnsignedMul(ToInt8(P[PRM_FILTER_LFO]),
                                       G[MOD_SRC_LFO_2])
                   - ToInt8(P[PRM_FILTER_LFO]) * 128),
                  0, 16383)
  IN [d EXCEPT ![MOD_DST_FILTER_CUTOFF] = lfo]

\* Lines 464-536: the accumulators and the VCA level after the matrix.
EvaluateMatrix(old, P, G, V) ==
  LET finish[acc \in Accumulators] ==
        [dst |-> HardcodedFilterModulations(acc.dst, P, G, V), vca |-> acc.vca]
  IN finish[ApplyMatrix([dst |-> LoadDestinations(old, P), vca |-> 255],
                        0, P, G, V)]

\* Lines 538-551: the accumulators scaled down to modulation_destinations_.
StoreDestinations(old, d, vca) ==
  [old EXCEPT
     ![MOD_DST_VCA] = vca,
     ![MOD_DST_FILTER_CUTOFF] = ShiftRight6(d[MOD_DST_FILTER_CUTOFF]),
     ![MOD_DST_FILTER_RESONANCE] = ShiftRight6(d[MOD_DST_FILTER_RESONANCE]),
     ![MOD_DST_PWM_1] = ToUint8(Shr(d[MOD_DST_PWM_1], 7)),
     ![MOD_DST_PWM_2] = ToUint8(Shr(d[MOD_DST_PWM_2], 7)),
     ![MOD_DST_MIX_BALANCE] = ShiftRight6(d[MOD_DST_MIX_BALANCE]),
     ![MOD_DST_MIX_NOISE] = ToUint8(Shr(d[MOD_DST_MIX_NOISE], 8)),
     ![MOD_DST_MIX_SUB_OSC] = ToUint8(Shr(d[MOD_DST_MIX_SUB_OSC], 7))]

(***************************************************************************)
(* Oscillators (hardware/shruti/oscillator.h): Osc1, Osc2 and SubOsc, each *)
(* a 16-bit phase accumulator with an increment and a rendering algorithm. *)
(***************************************************************************)
kNumOscillators == 2
Oscillators == 0 .. kNumOscillators   \* 0: Osc1, 1: Osc2, 2: SubOsc

WAVEFORM_FM == 6
WAVEFORM_VOWEL == 10

\* The values of the oscillator 1 option.
SYNC == 1
RING_MOD == 2
XOR == 3

\* Pitches are in 1/128th of a semitone.
kOctave == 1536
kLowestNote == 0
kHighestNote == 13824
kPitchTableStart == 12288

\* lut_res_oscillator_increments: the phase increments of the highest
\* octave, one entry per two pitch units, rising from the increment of the
\* table's first note to twice that.
OscillatorIncrements(i) == 4389 + (4389 * i) \div 768

OscillatorInit == [phase |-> 0, increment |-> 0, algorithm |-> 0]

\* Oscillator::SetupAlgorithm(shape)
OscillatorSetupAlgorithm(o, shape) == [o EXCEPT !.algorithm = shape]

\* Oscillator::Reset() and Oscillator::ResetPhase()
OscillatorReset(o) == [o EXCEPT !.phase = 0]

\* Oscillator::Update(parameter, note, increment)
OscillatorUpdate(o, increment) == [o EXCEPT !.increment = increment]

\* Oscillator::Render(): the phase moves by the increment.
OscillatorRender(o) == [o EXCEPT !.phase = ToUint16(o.phase + o.increment)]

\* The sample rendered at a phase: its most significant byte.
OscillatorSample(o) == Shr(o.phase, 8)

\* Lines 280-284: UpdateOscillatorAlgorithms.
UpdateOscillatorAlgorithms(osc, P) ==
  [i \in Oscillators |->
     OscillatorSetupAlgorithm(
       osc[i],
       CASE i = 0 -> P[PRM_OSC_SHAPE_1]
         [] i = 1 -> P[PRM_OSC_SHAPE_2]
         [] OTHER -> P[PRM_MIX_SUB_OSC_SHAPE])]

(***************************************************************************)
(* Voice::Control(): the oscillator pitches and increments.                *)
(***************************************************************************)
\* Lines 555-571: the pitch of oscillator i (0 or 1) before wrapping.
AssembledPitch(i, P, pitch, d) ==
  ToInt16(pitch
          + (IF i = 0 /\ P[PRM_OSC_SHAPE_1] = WAVEFORM_FM
             THEN 0 ELSE ToInt8(P[PRM_OSC_RANGE_1 + i]) * 128)
          + ToInt8(P[PRM_KBD_OCTAVE]) * kOctave
          + (IF i = 1 THEN P[PRM_OSC_OPTION_2] ELSE 0)
          + Shr(d[MOD_DST_VCO_1 + i] - 8192, 2)
          + Shr(d[MOD_DST_VCO_1_2_FINE] - 8192, 4))

\* Lines 574-576: octaves are added while the pitch is below kLowestNote.
RECURSIVE RaisePitch(_)
RaisePitch(pitch) ==
  IF pitch < kLowestNote THEN RaisePitch(ToInt16(pitch + kOctave)) ELSE pitch

\* Lines 577-579: octaves are taken off while the pitch is not below
\* kHighestNote.
RECURSIVE LowerPitch(_)
LowerPitch(pitch) ==
  IF pitch >= kHighestNote THEN LowerPitch(ToInt16(pitch - kOctave)) ELSE pitch

\* Lines 573-579.
WrapPitch(pitch) == LowerPitch(RaisePitch(pitch))

\* Lines 581-586: [ref_pitch, num_shifts] once ref_pitch is not negative.
RECURSIVE RaiseReference(_, _)
RaiseReference(ref_pitch, num_shifts) ==
  IF ref_pitch < 0
  THEN RaiseReference(ToInt16(ref_pitch + kOctave), ToUint8(num_shifts + 1))
  ELSE [ref_pitch |-> ref_pitch, num_shifts |-> num_shifts]

\* A lookup that forgets the transposition of the table.
TableIncrementUnshifted(pitch) ==
  LET r == RaiseReference(ToInt16(pitch - kPitchTableStart), 0)
  IN OscillatorIncrements(Shr(r.ref_pitch, 1))

\* Lines 581-591: the increment of a pitch inside the wrapping window.
TableIncrement(pitch) ==
  LET r == RaiseReference(ToInt16(pitch - kPitchTableStart), 0)
  IN Shr(OscillatorIncrements(Shr(r.ref_pitch, 1)), r.num_shifts)

\* The same for every pitch of the wrapping window, computed once.
TableIncrements ==
  [pitch \in kLowestNote .. (kHighestNote - 1) |-> TableIncrement(pitch)]

\* Lines 573-591: the increment resolved for an assembled pitch.
ResolvedIncrement(pitch) == TableIncrements[WrapPitch(pitch)]

\* Lines 554-601: the oscillators after the update.
UpdateOscillators(osc, P, pitch, d) ==
  LET increment == [i \in 0 .. (kNumOscillators - 1) |->
                      ResolvedIncrement(AssembledPitch(i, P, pitch, d))]
  IN [i \in Oscillators |->
        CASE i = 0 -> OscillatorUpdate(osc[i], increment[0])
          [] i = 1 -> OscillatorUpdate(osc[i], increment[1])
          [] OTHER -> OscillatorUpdate(osc[i], Shr(increment[0], 1))]

(***************************************************************************)
(* Voice::Control(): pitch and portamento.                                 *)
(***************************************************************************)
\* A step that lands on the target but keeps the increment of the slide.
PitchStepKeepsIncrement(value, increment, target) ==
  LET v == ToInt16(value + increment)
  IN IF (increment > 0) # (v < target)
     THEN [value |-> target, increment |-> increment]
     ELSE [value |-> v, increment |-> increment]

\* Lines 442-446: [value, increment] after one step of the slide.
PitchStep(value, increment, target) ==
  LET v == ToInt16(value + increment)
  IN IF (increment > 0) # (v < target)
     THEN [value |-> target, increment |-> 0]
     ELSE [value |-> v, increment |-> increment]

\* Lines 455-462: the voice specific sources.
VoiceSourcesAfter(V, env, pitch) ==
  [V EXCEPT
     ![MOD_SRC_ENV_1 - kNumGlobalModulationSources] = ShiftRight6(env[0].value),
     ![MOD_SRC_ENV_2 - kNumGlobalModulationSources] = ShiftRight6(env[1].value),
     ![MOD_SRC_NOTE - kNumGlobalModulationSources] = ShiftRight6(pitch),
     ![MOD_SRC_GATE - kNumGlobalModulationSources] =
        IF env[0].stage >= RELEASE THEN 0 ELSE 255]

\* A flag that is set and never cleared by the envelopes.
VoiceDeadWhateverEnvelopes(e0, e1) == TRUE

\* Lines 436-440: the voice is dead when both envelopes are.
VoiceDead(e0, e1) == EnvelopeDead(e0) /\ EnvelopeDead(e1)

\* Voice::Control(), reading the engine's sources G, from envelopes E.
VoiceControl(G, E) ==
  \E e0 \in EnvelopeRender(E[0]), e1 \in EnvelopeRender(E[1]) :
  \E p \in {PitchStep(pitch_value_, pitch_increment_, pitch_target_)} :
  \E V \in {VoiceSourcesAfter(voice_modulation_sources_,
                              [i \in 0 .. (kNumEnvelopes - 1) |->
                                 IF i = 0 THEN e0 ELSE e1],
                              p.value)} :
  \E m \in {EvaluateMatrix(dst, patch_, G, V)} :
    /\ envelope_' = [i \in 0 .. (kNumEnvelopes - 1) |-> IF i = 0 THEN e0 ELSE e1]
    /\ dead_' = VoiceDead(e0, e1)
    /\ pitch_value_' = p.value
    /\ pitch_increment_' = p.increment
    /\ pitch_target_' = pitch_target_
    /\ voice_modulation_sources_' = V
    /\ dst' = m.dst
    /\ modulation_destinations_' =
         StoreDestinations(modulation_destinations_, m.dst, m.vca)
    /\ oscillator_' = UpdateOscillators(oscillator_, patch_, p.value, m.dst)
    /\ UNCHANGED << signal_, osc1_phase_msb_ >>

(***************************************************************************)
(* Voice::Trigger(note, velocity, legato)                                  *)
(***************************************************************************)
\* Lines 410-415: the pitch target of a note.
PitchTarget(note, P) ==
  IF P[PRM_KBD_RAGA] # 0
  THEN ToInt16(note * 128 + ScaleOffset(P[PRM_KBD_RAGA], note % 12))
  ELSE ToInt16(note * 128)

\* A trigger that slides from the power-on pitch too.
PitchStartWithoutSnap(value, target) == value

\* Lines 416-418: the first note does not slide.
PitchStart(value, target) == IF value = 0 THEN target ELSE value

\* A trigger that leaves a computed increment of 0 alone.
PitchIncrementUnforced(value, target, P) ==
  ToInt16(Shr(ToInt16(target - value) * PortamentoIncrement(P[PRM_KBD_PORTAMENTO]),
              15))
\* Lines 419-430: the increment of the slide from value to target.
PitchIncrement(value, target, P) ==
  LET delta == ToInt16(target - value)
      increment == PortamentoIncrement(P[PRM_KBD_PORTAMENTO])
      scaled == ToInt16(Shr(delta * increment, 15))
  IN IF scaled = 0 THEN (IF delta < 0 THEN -1 ELSE 1) ELSE scaled

\* A trigger that starts the note over whether it is tied or not.
RetriggersAlways(legato) == TRUE

\* Line 402: a note that is not tied starts over.
Retriggers(legato) == ~legato

VoiceTrigger(note, velocity, legato) ==
  LET target == PitchTarget(note, patch_)
      value == PitchStart(pitch_value_, target)
  IN /\ envelope_' = IF ~Retriggers(legato) THEN envelope_
                     ELSE [i \in DOMAIN envelope_ |->
                             EnvelopeTrigger(envelope_[i], ATTACK)]
     /\ voice_modulation_sources_' =
          IF ~Retriggers(legato) THEN voice_modulation_sources_
          ELSE [voice_modulation_sources_ EXCEPT
                  ![MOD_SRC_VELOCITY - kNumGlobalModulationSources] =
                     ToUint8(velocity * 2)]
     /\ pitch_target_' = target
     /\ pitch_value_' = value
     /\ pitch_increment_' = PitchIncrement(value, target, patch_)
     /\ oscillator_' = IF ~Retriggers(legato) THEN oscillator_
                        ELSE [i \in Oscillators |-> OscillatorReset(oscillator_[i])]
     /\ UNCHANGED << dead_, modulation_destinations_, dst, signal_,
                     osc1_phase_msb_ >>

(***************************************************************************)
(* The note controller (hardware/shruti/voice_controller.h), an external   *)
(* collaborator: its active flag, its step, its estimated beat duration    *)
(* and its own copy of the arpeggiator settings.                           *)
(***************************************************************************)
\* VoiceController::estimated_beat_duration(), in control ticks, for an
\* internal tempo; with the external clock (tempo 0) the last estimate stays.
EstimatedBeatDuration(tempo, previous) ==
  IF tempo = 0 THEN previous ELSE 1920 \div tempo

ControllerInit(P) ==
  [active |-> FALSE, step |-> 0, has_arpeggiator_note |-> FALSE,
   estimated_beat_duration |-> EstimatedBeatDuration(P[PRM_ARP_TEMPO], 16),
   tempo |-> P[PRM_ARP_TEMPO], octaves |-> P[PRM_ARP_OCTAVE],
   pattern |-> P[PRM_ARP_PATTERN], swing |-> P[PRM_ARP_SWING],
   pattern_size |-> P[PRM_ARP_PATTERN_SIZE]]

\* VoiceController::SetTempo
ControllerSetTempo(c, value) ==
  [c EXCEPT !.tempo = value,
            !.estimated_beat_duration =
               EstimatedBeatDuration(value, c.estimated_beat_duration)]

\* VoiceController::Control() when the sequencer moves to the next step.
ControllerStep(c) ==
  [c EXCEPT !.step = IF c.pattern_size = 0 THEN 0
                     ELSE (c.step + 1) % c.pattern_size]

\* Patch::sequence_step(step): one nibble of the sequence, as the high nibble.
SequenceStep(P, step) ==
  LET byte == P[PRM_SEQUENCE + (step \div 2)]
  IN IF step % 2 = 1 THEN ToUint8(byte * 16) ELSE byte - (byte % 16)

(***************************************************************************)
(* LFO (hardware/shruti/lfo.h)                                             *)
(***************************************************************************)
LFO_WAVEFORM_SQUARE == 1
LFO_WAVEFORM_RAMP == 3

LfoInit == [phase |-> 0, increment |-> 0, wave |-> LFO_WAVEFORM_TRIANGLE]

\* Lfo::Update(wave, increment)
LfoUpdate(l, wave, increment) == [l EXCEPT !.wave = wave, !.increment = increment]

\* Lfo::Reset()
LfoReset(l) == [l EXCEPT !.phase = 0]

\* Lfo::Increment()
LfoIncrementPhase(l) == [l EXCEPT !.phase = ToUint16(l.phase + l.increment)]

\* Lfo::Render()
LfoRender(l) ==
  CASE l.wave = LFO_WAVEFORM_TRIANGLE ->
         IF l.phase < 32768 THEN Shr(l.phase, 7) ELSE Shr(65535 - l.phase, 7)
    [] l.wave = LFO_WAVEFORM_SQUARE -> IF l.phase < 32768 THEN 255 ELSE 0
    [] OTHER -> Shr(l.phase, 8)

(***************************************************************************)
(* SynthesisEngine::UpdateModulationIncrements()                           *)
(***************************************************************************)
\* Lines 295-297: the increment of an LFO that follows the tempo.
SyncedLfoIncrement(beat, rate) ==
  ToUint16(65536 \div (ToUint16(beat * (1 + rate)) \div 4))

\* A cadence that adds the periods instead of multiplying them.
NextResetStepsAdded(steps, rate) == ToUint8(steps + 1 + rate)

\* A cadence kept in 16 bits.
NextResetStepsWide(steps, rate) ==
  UnsignedUnsignedMul(IF steps # 0 THEN steps ELSE 1, 1 + rate)
\* Lines 298-300: the reset cadence after one more synced LFO.
NextResetSteps(steps, rate) ==
  ToUint8(UnsignedUnsignedMul(IF steps # 0 THEN steps ELSE 1, 1 + rate))

\* Lines 291-315: the loop, from LFO i on, on r = [steps, to_reset, lfo, envelope].
RECURSIVE UpdateLoop(_, _, _, _)
UpdateLoop(r, i, P, c) ==
  IF i >= kNumLfos THEN r
  ELSE
    LET rate == P[PRM_LFO_RATE_1 + i]
        synced == rate < 16
        increment == IF synced
                     THEN SyncedLfoIncrement(c.estimated_beat_duration, rate)
                     ELSE LfoIncrement(rate - 16)
    IN UpdateLoop(
         [steps |-> IF synced THEN NextResetSteps(r.steps, rate) ELSE r.steps,
          to_reset |-> IF synced THEN r.to_reset \cup {i} ELSE r.to_reset,
          lfo |-> [r.lfo EXCEPT ![i] = LfoUpdate(@, P[PRM_LFO_WAVE_1 + i], increment)],
          envelope |-> [r.envelope EXCEPT ![i] =
                          EnvelopeUpdate(@, P[PRM_ENV_ATTACK_1 + i],
                                            P[PRM_ENV_DECAY_1 + i],
                                            P[PRM_ENV_SUSTAIN_1 + i],
                                            P[PRM_ENV_RELEASE_1 + i])]],
         i + 1, P, c)

\* The whole function: what it computes from patch P, controller c and the
\* current LFOs and envelopes.
UpdateModulationIncrements(P, c, lfo, envelope) ==
  UpdateLoop([steps |-> 0, to_reset |-> {}, lfo |-> lfo, envelope |-> envelope],
             0, P, c)

(***************************************************************************)
(* What the last operation was and did: observations used to state the     *)
(* properties, never read by the operations themselves.                    *)
(*   run_len        step advances since the reset counter was last 0 with  *)
(*                  the cadence unchanged since (-1: not in such a run)    *)
(*   resync_at      run_len + 1 at the last resync (-1: not in a run)      *)
(*   primed         NoteOn primed the counter; no write or step since      *)
(*   was_active, counter_before   what the NoteOn just done found          *)
(*   value_before   pitch_value_ when the last Trigger began                *)
(*   triggers       how many times Trigger ran                             *)
(*   writes         how many parameter writes and control changes ran      *)
(***************************************************************************)
HistoryInit ==
  [op |-> "Init", stepped |-> FALSE, resynced |-> FALSE, run_len |-> 0,
   resync_at |-> -1, primed |-> FALSE, was_primed |-> FALSE,
   was_active |-> FALSE, counter_before |-> 0, value_before |-> 0,
   triggers |-> 0, writes |-> 0]

\* After an operation other than Control(): the run goes on only if the
\* counter and the cadence are what they were.
RunAfter(counter, steps) ==
  IF counter = 0 THEN 0
  ELSE IF counter = lfo_reset_counter_ /\ steps = num_lfo_reset_steps_
       THEN history.run_len
       ELSE -1

(***************************************************************************)
(* SynthesisEngine::SetParameter(parameter_index, parameter_value)         *)
(***************************************************************************)
\* A dispatch that forgets to forward the swing.
ForwardWithoutSwing(c, index, value) ==
  CASE index = PRM_ARP_TEMPO -> ControllerSetTempo(c, value)
    [] index = PRM_ARP_OCTAVE -> [c EXCEPT !.octaves = value]
    [] index = PRM_ARP_PATTERN -> [c EXCEPT !.pattern = value]
    [] index = PRM_ARP_PATTERN_SIZE -> [c EXCEPT !.pattern_size = value]
    [] OTHER -> c

\* Lines 259-276: the settings forwarded to the note controller.
ForwardToController(c, index, value) ==
  CASE index = PRM_ARP_TEMPO -> ControllerSetTempo(c, value)
    [] index = PRM_ARP_OCTAVE -> [c EXCEPT !.octaves = value]
    [] index = PRM_ARP_PATTERN -> [c EXCEPT !.pattern = value]
    [] index = PRM_ARP_SWING -> [c EXCEPT !.swing = value]
    [] index = PRM_ARP_PATTERN_SIZE -> [c EXCEPT !.pattern_size = value]
    [] OTHER -> c

\* Lines 249-252 and 262: whether the write recomputes the increments.
UpdatesIncrements(index) ==
  \/ index >= PRM_ENV_ATTACK_1 /\ index <= PRM_LFO_RATE_2
  \/ index = PRM_ARP_TEMPO

\* Lines 253-256: whether the write sets the oscillator algorithms up again.
UpdatesAlgorithms(index) ==
  index <= PRM_OSC_SHAPE_2 \/ index = PRM_MIX_SUB_OSC_SHAPE

\* A write through base[parameter_index], one byte too low.
PatchWriteAtBase(P, index, value) == [P EXCEPT ![index - 1] = value]

\* Lines 247-248: the byte that follows keep_me_at_the_top by index is set.
PatchWrite(P, index, value) == [P EXCEPT ![index] = value]

\* SynthesisEngine::GetParameter(index): the byte read back the same way.
GetParameter(P, index) == P[index]

\* Everything SetParameter changes, for an index inside the patch.
SetParameterEffect(index, value) ==
  \E P \in {PatchWrite(patch_, index, value)} :
  /\ patch_' = P
  /\ \E c \in {ForwardToController(controller_, index, value)} :
     \E u \in {UpdateModulationIncrements(P, c, lfo_, envelope_)} :
     /\ controller_' = c
     /\ IF UpdatesIncrements(index)
        THEN /\ num_lfo_reset_steps_' = u.steps
             /\ lfo_to_reset_' = u.to_reset
             /\ lfo_' = u.lfo
             /\ envelope_' = u.envelope
        ELSE UNCHANGED << num_lfo_reset_steps_, lfo_to_reset_, lfo_, envelope_ >>
     /\ oscillator_' = IF UpdatesAlgorithms(index)
                        THEN UpdateOscillatorAlgorithms(oscillator_, P)
                        ELSE oscillator_
     /\ UNCHANGED << modulation_sources_, nrpn_parameter_number_,
                     lfo_reset_counter_, dead_, pitch_increment_,
                     pitch_target_, pitch_value_, voice_modulation_sources_,
                     modulation_destinations_, dst, signal_, osc1_phase_msb_,
                     audio, probe, storeVars, rng_state_ >>

SetParameterCall(index, value) ==
  /\ SetParameterEffect(index, value)
  /\ history' = [history EXCEPT !.op = "SetParameter", !.primed = FALSE,
                   !.was_active = FALSE, !.counter_before = 0,
                   !.writes = @ + 1,
                   !.run_len = RunAfter(lfo_reset_counter_', num_lfo_reset_steps_')]

SetParameter(index, value) ==
  /\ SetParameterCall(index, value)
  /\ UNCHANGED editorVars

(***************************************************************************)
(* SynthesisEngine::ControlChange(channel, controller, value)              *)
(***************************************************************************)
Controllers ==
  {"kModulationWheelMsb", "kDataEntryMsb", "kPortamentoTimeMsb", "kRelease",
   "kAttack", "kHarmonicIntensity", "kBrightness", "kNrpnMsb", "other"}

\* The cases that write one patch field directly (lines 141-155).
AliasedField(controller) ==
  CASE controller = "kPortamentoTimeMsb" -> PRM_KBD_PORTAMENTO
    [] controller = "kRelease" -> PRM_ENV_RELEASE_1 + 1
    [] controller = "kAttack" -> PRM_ENV_ATTACK_1 + 1
    [] controller = "kHarmonicIntensity" -> PRM_FILTER_RESONANCE
    [] controller = "kBrightness" -> PRM_FILTER_CUTOFF

\* A guard that stops short of the arpeggiator settings.
DataEntryAcceptedBelowArpeggiator(number) == number < PRM_ARP_TEMPO

\* Line 137: the selected number is inside the patch.
DataEntryAccepted(number) == number < kNumPatchParameters

ControlChange(controller, value) ==
  /\ CASE controller = "kModulationWheelMsb" ->
            /\ modulation_sources_' =
                 [modulation_sources_ EXCEPT ![MOD_SRC_WHEEL] = ToUint8(value * 2)]
            /\ UNCHANGED << patch_, nrpn_parameter_number_, num_lfo_reset_steps_,
                            lfo_to_reset_, lfo_, controller_, envelope_, oscillator_ >>
       [] controller = "kDataEntryMsb" ->
            IF DataEntryAccepted(nrpn_parameter_number_)
            THEN SetParameterEffect(nrpn_parameter_number_, value)
            ELSE UNCHANGED << patch_, modulation_sources_, nrpn_parameter_number_,
                              num_lfo_reset_steps_, lfo_to_reset_, lfo_,
                              controller_, envelope_, oscillator_ >>
       [] controller \in {"kPortamentoTimeMsb", "kRelease", "kAttack",
                          "kHarmonicIntensity", "kBrightness"} ->
            /\ patch_' = [patch_ EXCEPT ![AliasedField(controller)] = value]
            /\ UNCHANGED << modulation_sources_, nrpn_parameter_number_,
                            num_lfo_reset_steps_, lfo_to_reset_, lfo_,
                            controller_, envelope_, oscillator_ >>
       [] controller = "kNrpnMsb" ->
            /\ nrpn_parameter_number_' = value
            /\ UNCHANGED << patch_, modulation_sources_, num_lfo_reset_steps_,
                            lfo_to_reset_, lfo_, controller_, envelope_, oscillator_ >>
       [] OTHER ->
            UNCHANGED << patch_, modulation_sources_, nrpn_parameter_number_,
                         num_lfo_reset_steps_, lfo_to_reset_, lfo_,
                         controller_, envelope_, oscillator_ >>
  /\ UNCHANGED << lfo_reset_counter_, dead_, pitch_increment_, pitch_target_,
                  pitch_value_, voice_modulation_sources_,
                  modulation_destinations_, dst, signal_, osc1_phase_msb_,
                  audio, probe, storeVars, editorVars, rng_state_ >>
  /\ history' = [history EXCEPT
                   !.op = "ControlChange",
                   !.was_active = FALSE, !.counter_before = 0,
                   !.writes = @ + 1,
                   !.primed = IF patch_' # patch_ THEN FALSE ELSE @,
                   !.run_len = RunAfter(lfo_reset_counter_', num_lfo_reset_steps_')]

(***************************************************************************)
(* SynthesisEngine::NoteOn / NoteOff / Clock                               *)
(***************************************************************************)
\* A note on that sets the counter to the cadence itself.
CounterAfterNoteOnAtCadence(counter, steps, active) ==
  IF ~active THEN ToUint8(steps) ELSE counter

\* Lines 110-112: the reset counter after a note on.
CounterAfterNoteOn(counter, steps, active) ==
  IF ~active THEN ToUint8(steps - 1) ELSE counter

\* The controller has a note to play after VoiceController::NoteOn.
NoteOnEffect(note, velocity) ==
  /\ lfo_reset_counter_' =
       CounterAfterNoteOn(lfo_reset_counter_, num_lfo_reset_steps_,
                          controller_.active)
  /\ controller_' = [controller_ EXCEPT !.active = TRUE]
  /\ UNCHANGED << patch_, modulation_sources_, nrpn_parameter_number_,
                  num_lfo_reset_steps_, lfo_to_reset_, lfo_, audio, probe,
                  storeVars, rng_state_ >>
  /\ UNCHANGED voiceVars
  /\ history' = [history EXCEPT
                   !.op = "NoteOn",
                   !.was_active = controller_.active,
                   !.counter_before = lfo_reset_counter_,
                   !.primed = IF controller_.active THEN @ ELSE TRUE,
                   !.run_len = RunAfter(lfo_reset_counter_', num_lfo_reset_steps_')]

NoteOn(note, velocity) ==
  /\ NoteOnEffect(note, velocity)
  /\ UNCHANGED editorVars

\* VoiceController::NoteOff: the controller stays active while other notes
\* are held.
NoteOff(note) ==
  /\ \E a \in BOOLEAN : controller_' = [controller_ EXCEPT !.active = a]
  /\ UNCHANGED << patch_, modulation_sources_, nrpn_parameter_number_,
                  num_lfo_reset_steps_, lfo_reset_counter_, lfo_to_reset_,
                  lfo_, audio, probe, storeVars, editorVars, rng_state_ >>
  /\ UNCHANGED voiceVars
  /\ history' = [history EXCEPT !.op = "NoteOff", !.was_active = FALSE,
                                !.counter_before = 0]

\* The note controller starts a note: Voice::Trigger, called from
\* VoiceController::NoteOn or VoiceController::Control.
Trigger(note, velocity, legato) ==
  /\ controller_.active
  /\ VoiceTrigger(note, velocity, legato)
  /\ UNCHANGED engineVars
  /\ UNCHANGED << audio, probe, storeVars, editorVars, rng_state_ >>
  /\ history' = [history EXCEPT !.op = "Trigger",
                                !.value_before = pitch_value_,
                                !.triggers = @ + 1]

\* Voice::Release(), called by the note controller when the last note is
\* released: TriggerEnvelope(RELEASE) (lines 394-398).
Release ==
  /\ envelope_' = [i \in DOMAIN envelope_ |->
                     EnvelopeTrigger(envelope_[i], RELEASE)]
  /\ UNCHANGED << dead_, pitch_increment_, pitch_target_, pitch_value_,
                  voice_modulation_sources_, modulation_destinations_, dst,
                  signal_, osc1_phase_msb_, oscillator_ >>
  /\ UNCHANGED engineVars
  /\ UNCHANGED << audio, probe, storeVars, editorVars, rng_state_ >>
  /\ history' = [history EXCEPT !.op = "Release"]

\* SynthesisEngine::Clock(): with the external clock (tempo 0) the controller
\* revises its estimate of the beat duration.
BeatDurations == {32}

Clock ==
  /\ controller_.tempo = 0
  /\ \E b \in BeatDurations :
       controller_' = [controller_ EXCEPT !.estimated_beat_duration = b]
  /\ UNCHANGED << patch_, modulation_sources_, nrpn_parameter_number_,
                  num_lfo_reset_steps_, lfo_reset_counter_, lfo_to_reset_,
                  lfo_, audio, probe, storeVars, editorVars, rng_state_ >>
  /\ UNCHANGED voiceVars
  /\ history' = [history EXCEPT !.op = "Clock", !.was_active = FALSE,
                                !.counter_before = 0]

(***************************************************************************)
(* SynthesisEngine::Control()                                              *)
(***************************************************************************)
\* Random::state_msb()
RandomStateMsb(state) == Shr(state, 8)

\* Lines 320-324: the LFOs move and are rendered into the global sources.
LfoSources(G, lfo, rng) ==
  [G EXCEPT ![MOD_SRC_LFO_1] = LfoRender(lfo[0]),
            ![MOD_SRC_LFO_1 + 1] = LfoRender(lfo[1]),
            ![MOD_SRC_RANDOM] = RandomStateMsb(rng)]

\* Lines 336-345: whether this step advance is the one that resyncs.
ResyncDue(counter, steps) == ToUint8(counter + 1) = steps

\* A resync that resets every LFO, marked or not.
ResetEveryLfo(lfo, to_reset) == [i \in DOMAIN lfo |-> LfoReset(lfo[i])]
\* Lines 339-343: the LFOs marked in lfo_to_reset_ are reset.
ResetMarkedLfos(lfo, to_reset) ==
  [i \in DOMAIN lfo |-> IF i \in to_reset THEN LfoReset(lfo[i]) ELSE lfo[i]]

\* Control(), with the outcome of VoiceController::Control(): whether the
\* sequencer moved to the next step, and whether the step plays a note.
Control(stepped, note) ==
  \E moved \in {[i \in DOMAIN lfo_ |-> LfoIncrementPhase(lfo_[i])]} :
  \E c \in {IF stepped
            THEN [ControllerStep(controller_) EXCEPT !.has_arpeggiator_note = note]
            ELSE controller_} :
  \E resync \in {stepped /\ ResyncDue(lfo_reset_counter_, num_lfo_reset_steps_)} :
  \E u \in {UpdateModulationIncrements(patch_, c, moved, envelope_)} :
  \E G \in {[LfoSources(modulation_sources_, moved, rng_state_) EXCEPT
               ![MOD_SRC_SEQ] = SequenceStep(patch_, c.step),
               ![MOD_SRC_STEP] = IF c.has_arpeggiator_note THEN 255 ELSE 0]} :
     /\ controller_' = c
     /\ modulation_sources_' = G
     /\ IF resync
        THEN /\ num_lfo_reset_steps_' = u.steps
             /\ lfo_to_reset_' = u.to_reset
             /\ lfo_' = ResetMarkedLfos(u.lfo, u.to_reset)
             /\ lfo_reset_counter_' = 0
             /\ VoiceControl(G, u.envelope)
        ELSE /\ UNCHANGED << num_lfo_reset_steps_, lfo_to_reset_ >>
             /\ lfo_' = moved
             /\ lfo_reset_counter_' = IF stepped THEN ToUint8(lfo_reset_counter_ + 1)
                                                 ELSE lfo_reset_counter_
             /\ VoiceControl(G, envelope_)
     /\ UNCHANGED << patch_, nrpn_parameter_number_, rng_state_ >>
     /\ history' = [history EXCEPT
          !.op = "Control",
          !.was_active = FALSE,
          !.counter_before = 0,
          !.stepped = stepped,
          !.resynced = IF stepped THEN resync ELSE @,
          !.was_primed = history.primed,
          !.primed = IF stepped THEN FALSE ELSE @,
          !.resync_at = IF resync
                        THEN (IF history.run_len >= 0 THEN history.run_len + 1 ELSE -1)
                        ELSE IF stepped THEN -1 ELSE @,
          !.run_len = IF resync THEN 0
                      ELSE IF stepped /\ history.run_len >= 0
                           THEN history.run_len + 1
                           ELSE @]

\* Control() as the only thing that happens.
ControlTick(stepped, note) ==
  /\ Control(stepped, note)
  /\ UNCHANGED << audio, probe, storeVars, editorVars >>

\* Voice::Control() of the voice alone, on the engine's sources as they are.
VoiceControlTick ==
  /\ VoiceControl(modulation_sources_, envelope_)
  /\ UNCHANGED engineVars
  /\ UNCHANGED << audio, probe, storeVars, editorVars, rng_state_ >>
  /\ history' = [history EXCEPT !.op = "VoiceControl"]

(***************************************************************************)
(* Voice::Audio()                                                          *)
(***************************************************************************)
\* The operator ^ on two bytes.
Xor8(a, b) ==
  LET bit[k \in 0 .. 7] == (((a \div 2^k) % 2) + ((b \div 2^k) % 2)) % 2
  IN bit[0] + 2 * bit[1] + 4 * bit[2] + 8 * bit[3] + 16 * bit[4]
       + 32 * bit[5] + 64 * bit[6] + 128 * bit[7]

\* int8_t SignedSignedMulScale8(int8_t a, int8_t b)
SignedSignedMulScale8(a, b) == ToInt8(Shr(a * b, 8))

\* A mix that leaves the balance out of the exclusive or.
CombineOscillatorsWithoutBalance(option, osc_1, osc_2, balance) ==
  CASE option = RING_MOD ->
         ToUint8(SignedSignedMulScale8(ToInt8(osc_1 + 128), ToInt8(osc_2 + 128))
                 + 128)
    [] option = XOR -> Xor8(osc_1, osc_2)
    [] OTHER -> Mix(osc_1, osc_2, balance)

\* Lines 615-624: the two oscillators combined by the option of oscillator 1.
CombineOscillators(option, osc_1, osc_2, balance) ==
  CASE option = RING_MOD ->
         ToUint8(SignedSignedMulScale8(ToInt8(osc_1 + 128), ToInt8(osc_2 + 128))
                 + 128)
    [] option = XOR -> ToUint8(Xor8(osc_1, osc_2) + balance)
    [] OTHER -> Mix(osc_1, osc_2, balance)

\* Lines 642-651: the sub oscillator and the noise blended in.
BlendSubAndNoise(shape, mix, sub, noise, sub_level, noise_level) ==
  IF shape # WAVEFORM_VOWEL
  THEN Mix(Mix(mix, sub, sub_level), noise, noise_level)
  ELSE mix

\* Line 629: oscillator 1 has wrapped since the last sample.
PhaseWrapped(phase_msb, previous) == phase_msb < previous

\* A dead voice that still renders.
VoiceIsDeadNever(dead) == FALSE

\* Line 606.
VoiceIsDead(dead) == dead

\* Voice::Audio(), with the most significant byte of the noise generator.
VoiceAudio(noise) ==
  IF VoiceIsDead(dead_)
  THEN /\ signal_' = 128
       /\ UNCHANGED << osc1_phase_msb_, oscillator_ >>
  ELSE \E o2 \in {OscillatorRender(oscillator_[1])} :
       \E o1 \in {OscillatorRender(oscillator_[0])} :
       \E option \in {patch_[PRM_OSC_OPTION_1]} :
       \E shape \in {patch_[PRM_OSC_SHAPE_1]} :
       \E sub \in {IF shape # WAVEFORM_VOWEL
                   THEN OscillatorRender(oscillator_[2]) ELSE oscillator_[2]} :
       \E phase_msb \in {Shr(o1.phase, 8)} :
       \E synced \in {option \notin {RING_MOD, XOR} /\ option = SYNC} :
         /\ signal_' =
              BlendSubAndNoise(
                shape,
                CombineOscillators(option, OscillatorSample(o1),
                                   OscillatorSample(o2),
                                   modulation_destinations_[MOD_DST_MIX_BALANCE]),
                OscillatorSample(sub), noise,
                modulation_destinations_[MOD_DST_MIX_SUB_OSC],
                modulation_destinations_[MOD_DST_MIX_NOISE])
         /\ osc1_phase_msb_' = IF synced THEN phase_msb ELSE osc1_phase_msb_
         /\ oscillator_' =
              [i \in Oscillators |->
                 CASE i = 0 -> o1
                   [] i = 1 -> IF synced /\ PhaseWrapped(phase_msb, osc1_phase_msb_)
                               THEN OscillatorReset(o2) ELSE o2
                   [] OTHER -> sub]

(***************************************************************************)
(* AudioRenderingTask and the TIMER_2_TICK interrupt (shruti.cc).  The     *)
(* audio buffer (AudioOutput, an external collaborator) is modelled by the *)
(* number of samples it holds.  The task is interruptible between any two  *)
(* of its calls, so each iteration of its loop is one step.                *)
(*   available   samples in the buffer                                     *)
(*   pc          "idle" between runs of the task, "render" inside its loop *)
(*   remaining   the loop variable i                                       *)
(*   checked     free space seen by writable_block() in this run           *)
(*   controls, audios, written   calls made by the current or last run     *)
(*   last        how the last run began: "none", "skipped" or "rendered"   *)
(*   overrun     a sample was written to a full buffer                     *)
(*   decimation  SynthesisEngine::oscillator_decimation_                   *)
(*   updates, renders   calls of Random::Update() and of Voice::Audio()    *)
(*               made by the current or last run                           *)
(*   osc1_msb    most significant byte of oscillator 1's phase at the last *)
(*               sample a live voice rendered, 0 before the first          *)
(***************************************************************************)
kAudioBufferSize == 8
kAudioBlockSize == 4

AudioInit ==
  [available |-> 0, pc |-> "idle", remaining |-> 0, checked |-> 0,
   controls |-> 0, audios |-> 0, written |-> 0, last |-> "none",
   overrun |-> FALSE, decimation |-> 0, updates |-> 0, renders |-> 0,
   osc1_msb |-> 0]

\* A test that is content with room for one sample.
WritableSample(a) == a.available < kAudioBufferSize

\* AudioOutput::writable_block(): room for one whole block.
WritableBlock(a) == a.available + kAudioBlockSize <= kAudioBufferSize

\* AudioOutput::Overwrite(): stores a sample without testing for room.
Overwrite(a) ==
  IF a.available < kAudioBufferSize
  THEN [a EXCEPT !.available = @ + 1, !.written = @ + 1]
  ELSE [a EXCEPT !.overrun = TRUE, !.written = @ + 1]

\* AudioOutput::EmitSample(): plays one sample if there is one.
EmitSample(a) == [a EXCEPT !.available = IF @ > 0 THEN @ - 1 ELSE 0]

\* Random::Update(): the generator moves to another of its states.
RandomStates == {1, 46080}

\* The task finds room for a block (line 247) and runs Control() (line 248).
AudioRenderingTaskBegin(stepped, note) ==
  /\ audio.pc = "idle"
  /\ WritableBlock(audio)
  /\ Control(stepped, note)
  /\ audio' = [audio EXCEPT !.pc = "render",
                            !.remaining = kAudioBlockSize,
                            !.checked = kAudioBufferSize - audio.available,
                            !.controls = 1, !.audios = 0, !.written = 0,
                            !.updates = 0, !.renders = 0,
                            !.last = "rendered"]
  /\ UNCHANGED << probe, storeVars, editorVars >>

\* The task finds no room for a block (line 247) and returns.
AudioRenderingTaskSkip ==
  /\ audio.pc = "idle"
  /\ ~WritableBlock(audio)
  /\ audio' = [audio EXCEPT !.last = "skipped", !.checked = 0,
                            !.controls = 0, !.audios = 0, !.written = 0,
                            !.updates = 0, !.renders = 0]
  /\ UNCHANGED engineVars
  /\ UNCHANGED voiceVars
  /\ UNCHANGED << probe, storeVars, editorVars, rng_state_, history >>

\* A noise generator that moves on every sample.
NoiseTickAlways(decimation) == TRUE

\* Line 362: the noise generator moves when the counter is back at 0.
NoiseTick(decimation) == decimation = 0

\* The record of the calls after one more call of SynthesisEngine::Audio().
AudioCalled(a) ==
  LET d == (a.decimation + 1) % 4
  IN [a EXCEPT !.decimation = d, !.audios = @ + 1,
               !.updates = IF NoiseTick(d) THEN @ + 1 ELSE @,
               !.renders = @ + 1]

\* SynthesisEngine::Audio() (lines 359-370): the counter moves, the noise
\* generator moves when it is due, the voice renders a sample.
EngineAudio ==
  /\ IF NoiseTick((audio.decimation + 1) % 4)
     THEN rng_state_' \in RandomStates
     ELSE UNCHANGED rng_state_
  /\ VoiceAudio(RandomStateMsb(rng_state_'))
  /\ UNCHANGED engineVars
  /\ UNCHANGED << envelope_, dead_, pitch_increment_, pitch_target_,
                  pitch_value_, voice_modulation_sources_,
                  modulation_destinations_, dst >>

\* One iteration of the loop of lines 249-252: SynthesisEngine::Audio()
\* and the sample written.
AudioRenderingTaskSample ==
  /\ audio.pc = "render"
  /\ audio.remaining > 0
  /\ EngineAudio
  /\ \E a \in {Overwrite([AudioCalled(audio) EXCEPT !.remaining = @ - 1])} :
       audio' = [a EXCEPT !.pc = IF a.remaining = 0 THEN "idle" ELSE "render",
                          !.osc1_msb = IF dead_ THEN @
                                       ELSE Shr(oscillator_'[0].phase, 8)]
  /\ UNCHANGED << probe, storeVars, editorVars, history >>

\* TIMER_2_TICK (lines 290-293).
TimerTick ==
  /\ audio' = EmitSample(audio)
  /\ UNCHANGED engineVars
  /\ UNCHANGED voiceVars
  /\ UNCHANGED << probe, storeVars, editorVars, rng_state_, history >>

(***************************************************************************)
(* One matrix entry against the amplitude destination, on chosen inputs.   *)
(***************************************************************************)
ProbeInit == [position |-> 0, amount |-> 0, value |-> 0, direct |-> 255,
              inverted |-> 255]

\* The patch with entry i routing the velocity to the amplitude with amount a.
AmplitudeEntry(P, i, a) ==
  [P EXCEPT ![ModSource(i)] = MOD_SRC_VELOCITY,
            ![ModDestination(i)] = MOD_DST_VCA,
            ![ModAmount(i)] = ToUint8(a)]

\* The amplitude after entry i alone, for amount a and source value v.
AmplitudeAfter(i, a, v) ==
  ApplyModulation(
    [dst |-> dst, vca |-> 255], i, AmplitudeEntry(patch_, i, a),
    modulation_sources_,
    [voice_modulation_sources_ EXCEPT
       ![MOD_SRC_VELOCITY - kNumGlobalModulationSources] = v]).vca

EvaluateAmplitude(i, a, v) ==
  /\ probe' = [position |-> i, amount |-> a, value |-> v,
               direct |-> AmplitudeAfter(i, a, v),
               inverted |-> AmplitudeAfter(i, -a, 255 - v)]
  /\ UNCHANGED engineVars
  /\ UNCHANGED voiceVars
  /\ UNCHANGED << audio, rng_state_, history, storeVars, editorVars >>

(***************************************************************************)
(* The matrix loop of Voice::Control() on a patch whose only entry with a  *)
(* nonzero amount is the one at position i, on chosen inputs.              *)
(***************************************************************************)
\* The patch with every amount cleared, then entry i set, and the base
\* parameters of the pulse width and of the resonance set to base.
SingleEntry(P, i, source, destination, a, base) ==
  [k \in PatchIndex |->
     IF k = ModSource(i) THEN source
     ELSE IF k = ModDestination(i) THEN destination
     ELSE IF k = ModAmount(i) THEN ToUint8(a)
     ELSE IF \E j \in 0 .. (kModulationMatrixSize - 1) : k = ModAmount(j) THEN 0
     ELSE IF k \in {PRM_OSC_PARAMETER_1, PRM_FILTER_RESONANCE} THEN base
     ELSE P[k]]

\* The sources with the one that is read set to v.
GlobalSourcesWith(G, source, v) ==
  IF source < kNumGlobalModulationSources THEN [G EXCEPT ![source] = v] ELSE G

VoiceSourcesWith(V, source, v) ==
  IF source < kNumGlobalModulationSources THEN V
  ELSE [V EXCEPT ![source - kNumGlobalModulationSources] = v]

\* The value a destination holds in the accumulators: dst, or the VCA level.
Accumulated(acc, destination) ==
  IF destination = MOD_DST_VCA THEN acc.vca ELSE acc.dst[destination]

\* Lines 464-522 on the single entry: the accumulators as loaded, and after
\* the loop over all the kModulationMatrixSize entries.
EvaluateEntry(i, source, destination, a, v, base) ==
  LET P == SingleEntry(patch_, i, source, destination, a, base)
      loaded == [dst |-> LoadDestinations(dst, P), vca |-> 255]
      after == ApplyMatrix(loaded, 0, P,
                 GlobalSourcesWith(modulation_sources_, source, v),
                 VoiceSourcesWith(voice_modulation_sources_, source, v))
  IN /\ probe' = [position |-> i, source |-> source,
                  destination |-> destination, amount |-> a, value |-> v,
                  wheel |-> modulation_sources_[MOD_SRC_WHEEL],
                  before |-> Accumulated(loaded, destination),
                  after |-> Accumulated(after, destination),
                  others |-> \A d \in Destinations \ {destination} :
                               after.dst[d] = loaded.dst[d]]
     /\ UNCHANGED engineVars
     /\ UNCHANGED voiceVars
     /\ UNCHANGED << audio, rng_state_, history, storeVars, editorVars >>

(***************************************************************************)
(* UpdateModulationIncrements() on chosen LFO rates, and the LFOs after a  *)
(* step advance of Control() that resyncs, from a chosen phase.            *)
(***************************************************************************)
EvaluateRates(rate_1, rate_2, phase) ==
  LET P == [patch_ EXCEPT ![PRM_LFO_RATE_1] = rate_1, ![PRM_LFO_RATE_2] = rate_2]
      u == UpdateModulationIncrements(P, controller_, lfo_, envelope_)
      running == [i \in DOMAIN lfo_ |-> [u.lfo[i] EXCEPT !.phase = phase]]
      moved == [i \in DOMAIN lfo_ |-> LfoIncrementPhase(running[i])]
      again == UpdateModulationIncrements(P, controller_, moved, envelope_)
  IN /\ probe' = [rate_1 |-> rate_1, rate_2 |-> rate_2, phase |-> phase,
                  steps |-> u.steps, to_reset |-> u.to_reset,
                  increments |-> [i \in DOMAIN lfo_ |-> u.lfo[i].increment],
                  resynced |-> [i \in DOMAIN lfo_ |->
                     ResetMarkedLfos(again.lfo, again.to_reset)[i].phase]]
     /\ UNCHANGED engineVars
     /\ UNCHANGED voiceVars
     /\ UNCHANGED << audio, rng_state_, history, storeVars, editorVars >>

(***************************************************************************)
(* The mixing stages of Voice::Audio() on chosen samples and levels.       *)
(***************************************************************************)
EvaluateMix(osc_1, osc_2, option, balance, shape, sub_level) ==
  /\ probe' =
       [osc_1 |-> osc_1, osc_2 |-> osc_2, option |-> option,
        balance |-> balance, shape |-> shape, sub_level |-> sub_level,
        combined |-> CombineOscillators(option, osc_1, osc_2, balance),
        sample |->
          BlendSubAndNoise(
            shape, CombineOscillators(option, osc_1, osc_2, balance),
            OscillatorSample(oscillator_[kNumOscillators]),
            RandomStateMsb(rng_state_), sub_level,
            modulation_destinations_[MOD_DST_MIX_NOISE])]
  /\ UNCHANGED engineVars
  /\ UNCHANGED voiceVars
  /\ UNCHANGED << audio, rng_state_, history, storeVars, editorVars >>

(***************************************************************************)
(* The increment Voice::Control() resolves for a chosen assembled pitch.   *)
(***************************************************************************)
EvaluateIncrement(pitch) ==
  /\ probe' = [pitch |-> pitch, wrapped |-> WrapPitch(pitch),
               increment |-> ResolvedIncrement(pitch)]
  /\ UNCHANGED engineVars
  /\ UNCHANGED voiceVars
  /\ UNCHANGED << audio, rng_state_, history, storeVars, editorVars >>

(***************************************************************************)
(* Patch (hardware/shruti/patch.cc): the serialized image of a patch, the  *)
(* EEPROM slots and the SysEx transfer, all through load_save_buffer_.     *)
(***************************************************************************)
kPatchNameSize == 8

\* The bytes of an image: 28 parameters, the saved matrix entries on two
\* bytes each, the sequence and the name.
kSerializedPatchSize == 28 + 2 * kSavedModulationMatrixSize + 8 + kPatchNameSize

ImageIndex == 0 .. (kSerializedPatchSize - 1)
BufferIndex == 0 .. kSerializedPatchSize

\* Op::ShiftLeft4 and Op::ShiftRight4 on a byte.
ShiftLeft4(x) == ToUint8(x * 16)
ShiftRight4(x) == x \div 16

\* The operator | on two bytes.
Or8(a, b) ==
  LET bit[k \in 0 .. 7] ==
        IF ((a \div 2^k) % 2) + ((b \div 2^k) % 2) > 0 THEN 1 ELSE 0
  IN bit[0] + 2 * bit[1] + 4 * bit[2] + 8 * bit[3] + 16 * bit[4]
       + 32 * bit[5] + 64 * bit[6] + 128 * bit[7]

\* An image that leaves the sequence out.
PackWithoutSequence(P) ==
  [i \in ImageIndex |->
     IF i < 28 THEN P[i]
     ELSE IF i < 28 + 2 * kSavedModulationMatrixSize
     THEN IF (i - 28) % 2 = 0
          THEN Or8(P[ModSource((i - 28) \div 2)],
                   ShiftLeft4(P[ModDestination((i - 28) \div 2)]))
          ELSE P[ModAmount((i - 28) \div 2)]
     ELSE IF i < 28 + 2 * kSavedModulationMatrixSize + 8
     THEN 0
     ELSE P[PRM_NAME + (i - 28 - 2 * kSavedModulationMatrixSize - 8)]]

\* Lines 21-36: Patch::Pack, the image of patch P.
Pack(P) ==
  [i \in ImageIndex |->
     IF i < 28 THEN P[i]
     ELSE IF i < 28 + 2 * kSavedModulationMatrixSize
     THEN IF (i - 28) % 2 = 0
          THEN Or8(P[ModSource((i - 28) \div 2)],
                   ShiftLeft4(P[ModDestination((i - 28) \div 2)]))
          ELSE P[ModAmount((i - 28) \div 2)]
     ELSE IF i < 28 + 2 * kSavedModulationMatrixSize + 8
     THEN P[PRM_SEQUENCE + (i - 28 - 2 * kSavedModulationMatrixSize)]
     ELSE P[PRM_NAME + (i - 28 - 2 * kSavedModulationMatrixSize - 8)]]

\* A CheckBuffer that looks at the parameters only.
CheckBufferWithoutName(buffer) ==
  \A i \in 6 .. 25 : buffer[i] <= 128

\* Lines 38-51: Patch::CheckBuffer.
CheckBuffer(buffer) ==
  LET name_offset == 2 * kSavedModulationMatrixSize + 28 + 8
  IN /\ \A i \in 6 .. 25 : buffer[i] <= 128
     /\ \A i \in name_offset .. (name_offset + kPatchNameSize - 1) :
          buffer[i] <= 128

\* An Unpack that takes the whole byte as the source of a matrix entry.
UnpackUnmasked(P, buffer) ==
  [k \in PatchIndex |->
     IF k < 28 THEN buffer[k]
     ELSE IF k < PRM_MOD_SOURCE + 3 * kSavedModulationMatrixSize
     THEN LET i == (k - PRM_MOD_SOURCE) \div 3
          IN CASE k = ModSource(i) -> buffer[2 * i + 28]
               [] k = ModDestination(i) -> ShiftRight4(buffer[2 * i + 28])
               [] OTHER -> buffer[2 * i + 29]
     ELSE IF k >= PRM_SEQUENCE /\ k < PRM_SEQUENCE + 8
     THEN buffer[(k - PRM_SEQUENCE) + 2 * kSavedModulationMatrixSize + 28]
     ELSE IF k >= PRM_NAME /\ k < PRM_NAME + 8
     THEN buffer[(k - PRM_NAME) + 2 * kSavedModulationMatrixSize + 28 + 8]
     ELSE P[k]]

\* Lines 53-69: Patch::Unpack, patch P with the fields of the image in buffer.
Unpack(P, buffer) ==
  [k \in PatchIndex |->
     IF k < 28 THEN buffer[k]
     ELSE IF k < PRM_MOD_SOURCE + 3 * kSavedModulationMatrixSize
     THEN LET i == (k - PRM_MOD_SOURCE) \div 3
          IN CASE k = ModSource(i) -> buffer[2 * i + 28] % 16
               [] k = ModDestination(i) -> ShiftRight4(buffer[2 * i + 28])
               [] OTHER -> buffer[2 * i + 29]
     ELSE IF k >= PRM_SEQUENCE /\ k < PRM_SEQUENCE + 8
     THEN buffer[(k - PRM_SEQUENCE) + 2 * kSavedModulationMatrixSize + 28]
     ELSE IF k >= PRM_NAME /\ k < PRM_NAME + 8
     THEN buffer[(k - PRM_NAME) + 2 * kSavedModulationMatrixSize + 28 + 8]
     ELSE P[k]]

\* Lines 91-97: sysex_header.
sysex_header == << 240, 0, 32, 119, 0, 1, 1, 0 >>

\* A data phase that ends one byte late.
SysExReceiveDataLate(r, byte) ==
  LET i == r.received \div 2
      stored == IF r.received % 2 = 1 THEN Or8(r.buffer[i], byte % 16)
                                      ELSE ShiftLeft4(byte)
      count == ToUint8(r.received + 1)
  IN [r EXCEPT
        !.buffer[i] = stored,
        !.checksum = IF r.received % 2 = 1 /\ i < kSerializedPatchSize
                     THEN ToUint8(@ + stored) ELSE @,
        !.received = count,
        !.state = IF count > (kSerializedPatchSize + 1) * 2
                  THEN "RECEIVING_FOOTER" ELSE @]

\* Lines 123-169: Patch::SysExReceive(sysex_byte), on
\* r = [buffer, received, checksum, state, patch].
SysExReceiveHeader(r, byte) ==
  IF sysex_header[r.received + 1] = byte
  THEN IF r.received + 1 >= Len(sysex_header)
       THEN [r EXCEPT !.state = "RECEIVING_DATA", !.received = 0]
       ELSE [r EXCEPT !.received = r.received + 1]
  ELSE [r EXCEPT !.state = "RECEIVING_FOOTER"]

SysExReceiveData(r, byte) ==
  LET i == r.received \div 2
      stored == IF r.received % 2 = 1 THEN Or8(r.buffer[i], byte % 16)
                                      ELSE ShiftLeft4(byte)
      count == ToUint8(r.received + 1)
  IN [r EXCEPT
        !.buffer[i] = stored,
        !.checksum = IF r.received % 2 = 1 /\ i < kSerializedPatchSize
                     THEN ToUint8(@ + stored) ELSE @,
        !.received = count,
        !.state = IF count >= (kSerializedPatchSize + 1) * 2
                  THEN "RECEIVING_FOOTER" ELSE @]

\* A footer that takes the image whatever the checksum.
SysExReceiveFooterUnchecked(r, byte) ==
  IF byte = 247 /\ CheckBuffer(r.buffer)
  THEN [r EXCEPT !.patch = Unpack(r.patch, r.buffer), !.state = "RECEPTION_OK"]
  ELSE [r EXCEPT !.state = "RECEPTION_ERROR"]

SysExReceiveFooter(r, byte) ==
  IF /\ byte = 247
     /\ r.checksum = r.buffer[kSerializedPatchSize]
     /\ CheckBuffer(r.buffer)
  THEN [r EXCEPT !.patch = Unpack(r.patch, r.buffer), !.state = "RECEPTION_OK"]
  ELSE [r EXCEPT !.state = "RECEPTION_ERROR"]

\* A start of message that keeps the count of bytes received.
SysExReceiveUncleared(r, byte) ==
  LET started == IF byte = 240
                 THEN [r EXCEPT !.checksum = 0, !.state = "RECEIVING_HEADER"]
                 ELSE r
  IN CASE started.state = "RECEIVING_HEADER" -> SysExReceiveHeader(started, byte)
       [] started.state = "RECEIVING_DATA" -> SysExReceiveData(started, byte)
       [] started.state = "RECEIVING_FOOTER" -> SysExReceiveFooter(started, byte)
       [] OTHER -> started

SysExReceive(r, byte) ==
  LET started == IF byte = 240
                 THEN [r EXCEPT !.checksum = 0, !.received = 0,
                                !.state = "RECEIVING_HEADER"]
                 ELSE r
  IN CASE started.state = "RECEIVING_HEADER" -> SysExReceiveHeader(started, byte)
       [] started.state = "RECEIVING_DATA" -> SysExReceiveData(started, byte)
       [] started.state = "RECEIVING_FOOTER" -> SysExReceiveFooter(started, byte)
       [] OTHER -> started

\* The checksum of lines 113-115: the sum of the bytes from..to of the image.
RECURSIVE ImageSum(_, _, _)
ImageSum(image, from, to) ==
  IF from = to THEN image[from]
  ELSE ToUint8(ImageSum(image, from, (from + to) \div 2)
               + ImageSum(image, ((from + to) \div 2) + 1, to))

\* Lines 99-121: the bytes Patch::SysExSend writes for an image, which is
\* what a sender of the same kind transmits; kind names what it gets wrong.
Nibbles(image) ==
  [k \in 1 .. (2 * kSerializedPatchSize) |->
     IF k % 2 = 1 THEN ShiftRight4(image[(k - 1) \div 2])
                  ELSE image[(k - 1) \div 2] % 16]

Message(kind, image) ==
  LET sum == IF kind = "checksum"
             THEN ToUint8(ImageSum(image, 0, kSerializedPatchSize - 1) + 1)
             ELSE ImageSum(image, 0, kSerializedPatchSize - 1)
      header == IF kind \in {"command", "short"}
                THEN [sysex_header EXCEPT ![7] = 2] ELSE sysex_header
      footer == CASE kind = "footer" -> 0
                  [] kind = "restart" -> 240
                  [] OTHER -> 247
  IN IF kind = "short" THEN SubSeq(header, 1, 7) \o << 247 >>
     ELSE IF kind = "cut" THEN header \o SubSeq(Nibbles(image), 1, 5)
     ELSE IF kind = "head" THEN SubSeq(header, 1, 3)
     ELSE IF kind = "long"
     THEN header \o Nibbles(image) \o Nibbles(image) \o << footer >>
     ELSE header \o Nibbles(image) \o << ShiftRight4(sum), sum % 16 >>
            \o << footer >>
            \o (IF kind = "trailing" THEN << 1, 247 >> ELSE << >>)

\* SynthesisEngine::TouchPatch() (synthesis_engine.h), run when touched:
\* the increments and the oscillator algorithms follow patch P.
PatchInstalled(P, touched) ==
  \E u \in {UpdateModulationIncrements(P, controller_, lfo_, envelope_)} :
    /\ patch_' = P
    /\ IF touched
       THEN /\ num_lfo_reset_steps_' = u.steps
            /\ lfo_to_reset_' = u.to_reset
            /\ lfo_' = u.lfo
            /\ envelope_' = u.envelope
            /\ oscillator_' = UpdateOscillatorAlgorithms(oscillator_, P)
       ELSE UNCHANGED << num_lfo_reset_steps_, lfo_to_reset_, lfo_, envelope_,
                         oscillator_ >>
    /\ UNCHANGED << modulation_sources_, nrpn_parameter_number_,
                    lfo_reset_counter_, controller_, dead_, pitch_increment_,
                    pitch_target_, pitch_value_, voice_modulation_sources_,
                    modulation_destinations_, dst, signal_, osc1_phase_msb_,
                    audio, probe, rng_state_, history >>

\* A message arrives at the MIDI input; transfer keeps what it carries.
Receive(kind, image) ==
  /\ midi_io = << >>
  /\ midi_io' = Message(kind, image)
  /\ transfer' = [transfer EXCEPT !.op = "Receive", !.count = @ + 1,
                                  !.kind = kind, !.sent = image,
                                  !.mixed = FALSE]
  /\ UNCHANGED << load_save_buffer_, sysex_bytes_received_,
                  sysex_reception_checksum_, sysex_reception_state_, eeprom_ >>
  /\ UNCHANGED engineVars
  /\ UNCHANGED voiceVars
  /\ UNCHANGED << audio, probe, rng_state_, history >>
  /\ UNCHANGED editorVars

\* MidiTask() (shruti.cc lines 198-244) on a byte of a SysEx message: the
\* parser hands it to SysExReceive, and the patch is touched when the
\* reception has ended well.
MidiTask ==
  /\ midi_io # << >>
  /\ \E byte \in {Head(midi_io)} :
     \E r \in {SysExReceive([buffer |-> load_save_buffer_,
                             received |-> sysex_bytes_received_,
                             checksum |-> sysex_reception_checksum_,
                             state |-> sysex_reception_state_,
                             patch |-> patch_], byte)} :
       /\ midi_io' = Tail(midi_io)
       /\ load_save_buffer_' = r.buffer
       /\ sysex_bytes_received_' = r.received
       /\ sysex_reception_checksum_' = r.checksum
       /\ sysex_reception_state_' = r.state
       /\ PatchInstalled(r.patch,
                         byte \in {240, 247} /\ r.state = "RECEPTION_OK")
       /\ transfer' = [transfer EXCEPT !.op = "MidiTask", !.byte = byte]
  /\ UNCHANGED eeprom_
  /\ UNCHANGED editorVars

\* Lines 71-77: Patch::EepromSave(slot), from Editor::EnterLoadSaveMode
\* (editor.cc lines 434-441).
EepromSave(slot) ==
  /\ load_save_buffer_' =
       [i \in BufferIndex |->
          IF i < kSerializedPatchSize THEN Pack(patch_)[i]
                                      ELSE load_save_buffer_[i]]
  /\ eeprom_' = [eeprom_ EXCEPT ![slot] = Pack(patch_)]
  /\ transfer' = [transfer EXCEPT !.op = "EepromSave", !.edits = @ + 1,
                                  !.mixed = TRUE]
  /\ UNCHANGED << sysex_bytes_received_, sysex_reception_checksum_,
                  sysex_reception_state_, midi_io >>
  /\ UNCHANGED engineVars
  /\ UNCHANGED voiceVars
  /\ UNCHANGED << audio, probe, rng_state_, history >>

\* Lines 79-89: Patch::EepromLoad(slot), then TouchPatch(), from
\* Editor::HandleLoadSaveInput (editor.cc lines 449-461).
EepromLoad(slot) ==
  \E buffer \in {[i \in BufferIndex |->
                    IF i < kSerializedPatchSize THEN eeprom_[slot][i]
                                                ELSE load_save_buffer_[i]]} :
    /\ load_save_buffer_' = buffer
    /\ PatchInstalled(IF CheckBuffer(buffer) THEN Unpack(patch_, buffer)
                      ELSE [patch_ EXCEPT ![PRM_NAME] = 63], TRUE)
    /\ transfer' = [transfer EXCEPT !.op = "EepromLoad", !.edits = @ + 1,
                                    !.mixed = TRUE]
    /\ UNCHANGED << sysex_bytes_received_, sysex_reception_checksum_,
                    sysex_reception_state_, eeprom_, midi_io >>

\* The patch storage at power-on: the statics are zero, nothing has been
\* received; the EEPROM keeps what it held, here an erased slot and a slot
\* with a patch saved earlier, then slots whose bytes were written by
\* something else: one with a parameter above 128, one with a name byte
\* above 128, and one that holds 128 where CheckBuffer looks and bytes above
\* 128 where it does not.
EepromSlots == {0, 1}
OtherSlots == {2, 3, 4}
StoredPatch ==
  [DefaultPatch EXCEPT ![PRM_OSC_SHAPE_2] = WAVEFORM_SAW, ![PRM_NAME] = 66,
                       ![PRM_SEQUENCE] = 17]
EepromAtPowerOn ==
  [slot \in EepromSlots \cup OtherSlots |->
     CASE slot = 0 -> [i \in ImageIndex |-> 255]
       [] slot = 1 -> Pack(StoredPatch)
       [] slot = 2 -> [Pack(StoredPatch) EXCEPT ![6] = 129]
       [] slot = 3 -> [Pack(StoredPatch) EXCEPT ![kSerializedPatchSize - 1] = 200]
       [] OTHER -> [Pack(StoredPatch) EXCEPT ![5] = 255, ![6] = 128,
                                             ![25] = 128, ![26] = 255,
                                             ![28] = 165, ![29] = 255,
                                             ![48] = 255,
                                             ![kSerializedPatchSize - 1] = 128]]

TransferInit ==
  [op |-> "Init", count |-> 0, edits |-> 0, kind |-> "none", byte |-> 0,
   sent |-> [i \in ImageIndex |-> 0], mixed |-> FALSE]

StoreInit ==
  /\ load_save_buffer_ = [i \in BufferIndex |-> 0]
  /\ sysex_bytes_received_ = 0
  /\ sysex_reception_checksum_ = 0
  /\ sysex_reception_state_ = "RECEIVING_HEADER"
  /\ eeprom_ = EepromAtPowerOn
  /\ midi_io = << >>
  /\ transfer = TransferInit

(***************************************************************************)
(* SynthesisEngine::Init()                                                 *)
(***************************************************************************)
(* Editor (hardware/shruti/editor.cc): the pages, the parameters they      *)
(* edit, and the load/save page.                                           *)
(***************************************************************************)
\* Lines 284-298: page_definition_, in the order of the page ids (Init()
\* checks page_definition_[i].id = i).
PAGE_OSC_OSC_1 == 0
PAGE_OSC_OSC_2 == 1
PAGE_OSC_OSC_MIX == 2
PAGE_FILTER_FILTER == 3
PAGE_MOD_ENV_1 == 4
PAGE_MOD_ENV_2 == 5
PAGE_MOD_LFO == 6
PAGE_MOD_MATRIX == 7
PAGE_PLAY_ARP == 8
PAGE_PLAY_STEP_SEQUENCER == 9
PAGE_PLAY_KBD == 10
PAGE_LOAD_SAVE == 11
PAGE_PERFORMANCE == 12
kNumPages == 13

\* The groups, in the order of last_visited_page_ (lines 306-313).
GROUP_OSC == 0
GROUP_FILTER == 1
GROUP_MOD == 2
GROUP_PLAY == 3
GROUP_LOAD_SAVE == 4
GROUP_PERFORMANCE == 5
kNumGroups == 6
Groups == 0 .. (kNumGroups - 1)

Page(group, ui_type, first_parameter_index) ==
  [group |-> group, ui_type |-> ui_type,
   first_parameter_index |-> first_parameter_index]

page_definition_ ==
  << Page(GROUP_OSC, "PARAMETER_EDITOR", 0),
     Page(GROUP_OSC, "PARAMETER_EDITOR", 4),
     Page(GROUP_OSC, "PARAMETER_EDITOR", 8),
     Page(GROUP_FILTER, "PARAMETER_EDITOR", 12),
     Page(GROUP_MOD, "PARAMETER_EDITOR", 16),
     Page(GROUP_MOD, "PARAMETER_EDITOR", 20),
     Page(GROUP_MOD, "PARAMETER_EDITOR", 24),
     Page(GROUP_MOD, "PARAMETER_EDITOR", 28),
     Page(GROUP_PLAY, "PARAMETER_EDITOR", 32),
     Page(GROUP_PLAY, "STEP_SEQUENCER", 0),
     Page(GROUP_PLAY, "PARAMETER_EDITOR", 36),
     Page(GROUP_LOAD_SAVE, "LOAD_SAVE", 0),
     Page(GROUP_PERFORMANCE, "PARAMETER_EDITOR", 0) >>

\* page_definition_[page], for a page inside the table.
PageDefinition(page) == page_definition_[page + 1]

\* Values of the enumerations of patch.h and synthesis_engine.h that the
\* parameter definitions name.
WAVEFORM_NONE == 0
WAVEFORM_IMPULSE_TRAIN == 1
WAVEFORM_TRIANGLE == 4
WAVEFORM_ANALOG_WAVETABLE == 11
SUM == 0
OFF == 0
kNumArpeggiatorPatterns == 6
PRM_MOD_DESTINATION == PRM_MOD_SOURCE + 1
PRM_MOD_AMOUNT == PRM_MOD_SOURCE + 2
PRM_MOD_ROW == PRM_MOD_SOURCE + 3

\* Lines 60-271: raw_parameter_definition, as << id, min_value, max_value,
\* unit >>; the bounds are bytes (a negative bound is stored modulo 256).
raw_parameter_definition ==
  << << PRM_OSC_SHAPE_1, WAVEFORM_NONE, WAVEFORM_ANALOG_WAVETABLE, "UNIT_WAVEFORM" >>,
     << PRM_OSC_PARAMETER_1, 0, 127, "UNIT_RAW_UINT8" >>,
     << PRM_OSC_RANGE_1, ToUint8(-12), 12, "UNIT_INT8" >>,
     << PRM_OSC_OPTION_1, SUM, XOR, "UNIT_OPERATOR" >>,
     << PRM_OSC_SHAPE_2, WAVEFORM_IMPULSE_TRAIN, WAVEFORM_TRIANGLE, "UNIT_WAVEFORM" >>,
     << PRM_OSC_PARAMETER_2, 0, 127, "UNIT_RAW_UINT8" >>,
     << PRM_OSC_RANGE_2, ToUint8(-24), 24, "UNIT_INT8" >>,
     << PRM_OSC_OPTION_2, 0, 127, "UNIT_RAW_UINT8" >>,
     << PRM_MIX_BALANCE, 0, 63, "UNIT_UINT8" >>,
     << PRM_MIX_SUB_OSC, 0, 63, "UNIT_UINT8" >>,
     << PRM_MIX_NOISE, 0, 63, "UNIT_UINT8" >>,
     << PRM_MIX_SUB_OSC_SHAPE, WAVEFORM_SQUARE, WAVEFORM_TRIANGLE, "UNIT_WAVEFORM" >>,
     << PRM_FILTER_CUTOFF, 0, 127, "UNIT_RAW_UINT8" >>,
     << PRM_FILTER_RESONANCE, 0, 63, "UNIT_UINT8" >>,
     << PRM_FILTER_ENV, 0, 63, "UNIT_INT8" >>,
     << PRM_FILTER_LFO, 0, 63, "UNIT_INT8" >>,
     << PRM_ENV_ATTACK_1, 0, 127, "UNIT_RAW_UINT8" >>,
     << PRM_ENV_DECAY_1, 0, 127, "UNIT_RAW_UINT8" >>,
     << PRM_ENV_SUSTAIN_1, 0, 127, "UNIT_RAW_UINT8" >>,
     << PRM_ENV_RELEASE_1, 0, 127, "UNIT_RAW_UINT8" >>,
     << PRM_ENV_ATTACK_1 + 1, 0, 127, "UNIT_RAW_UINT8" >>,
     << PRM_ENV_DECAY_1 + 1, 0, 127, "UNIT_RAW_UINT8" >>,
     << PRM_ENV_SUSTAIN_1 + 1, 0, 127, "UNIT_RAW_UINT8" >>,
     << PRM_ENV_RELEASE_1 + 1, 0, 127, "UNIT_RAW_UINT8" >>,
     << PRM_LFO_WAVE_1, LFO_WAVEFORM_TRIANGLE, LFO_WAVEFORM_RAMP, "UNIT_LFO_WAVEFORM" >>,
     << PRM_LFO_RATE_1, 0, 127 + 16, "UNIT_LFO_RATE" >>,
     << PRM_LFO_WAVE_1 + 1, LFO_WAVEFORM_TRIANGLE, LFO_WAVEFORM_RAMP, "UNIT_LFO_WAVEFORM" >>,
     << PRM_LFO_RATE_2, 0, 127 + 16, "UNIT_LFO_RATE" >>,
     << PRM_MOD_ROW, 0, kModulationMatrixSize - 1, "UNIT_INDEX" >>,
     << PRM_MOD_SOURCE, 0, kNumModulationSources - 1, "UNIT_MODULATION_SOURCE" >>,
     << PRM_MOD_DESTINATION, 0, kNumModulationDestinations - 1,
        "UNIT_MODULATION_DESTINATION" >>,
     << PRM_MOD_AMOUNT, ToUint8(-63), 63, "UNIT_INT8" >>,
     << PRM_ARP_TEMPO, 24, 240, "UNIT_TEMPO_WITH_EXTERNAL_CLOCK" >>,
     << PRM_ARP_OCTAVE, OFF, 4, "UNIT_UINT8" >>,
     << PRM_ARP_PATTERN, 0, kNumArpeggiatorPatterns * 4 - 1, "UNIT_PATTERN" >>,
     << PRM_ARP_SWING, 0, 127, "UNIT_RAW_UINT8" >>,
     << PRM_KBD_OCTAVE, ToUint8(-2), 2, "UNIT_INT8" >>,
     << PRM_KBD_RAGA, 0, 77, "UNIT_RAGA" >>,
     << PRM_KBD_PORTAMENTO, 0, 127, "UNIT_RAW_UINT8" >>,
     << PRM_KBD_MIDI_CHANNEL, 0, 16, "UNIT_UINT8" >> >>

kNumEditableParameters == Len(raw_parameter_definition)

\* Lines 826-835: Editor::parameter_definition(index).
parameter_definition(index) ==
  LET raw == raw_parameter_definition[index + 1]
  IN [id |-> raw[1], min_value |-> raw[2], max_value |-> raw[3],
      unit |-> raw[4]]

kNumEditingPots == 4

\* The statics of the editor, as one record.
EditorState ==
  [current_page_ |-> current_page_,
   last_visited_page_ |-> last_visited_page_,
   subpage_ |-> subpage_,
   last_visited_subpage_ |-> last_visited_subpage_,
   cursor_ |-> cursor_,
   action_ |-> action_,
   current_patch_number_ |-> current_patch_number_,
   previous_patch_number_ |-> previous_patch_number_,
   current_controller_ |-> current_controller_,
   test_note_playing_ |-> test_note_playing_,
   assign_in_progress_ |-> assign_in_progress_,
   assigned_parameters_ |-> assigned_parameters_,
   parameter_to_assign_ |-> parameter_to_assign_]

EditorBecomes(e) ==
  /\ current_page_' = e.current_page_
  /\ last_visited_page_' = e.last_visited_page_
  /\ subpage_' = e.subpage_
  /\ last_visited_subpage_' = e.last_visited_subpage_
  /\ cursor_' = e.cursor_
  /\ action_' = e.action_
  /\ current_patch_number_' = e.current_patch_number_
  /\ previous_patch_number_' = e.previous_patch_number_
  /\ current_controller_' = e.current_controller_
  /\ test_note_playing_' = e.test_note_playing_
  /\ assign_in_progress_' = e.assign_in_progress_
  /\ assigned_parameters_' = e.assigned_parameters_
  /\ parameter_to_assign_' = e.parameter_to_assign_

\* Nothing of the engine, the voice or the audio changes.
SynthUntouched ==
  /\ UNCHANGED engineVars
  /\ UNCHANGED voiceVars
  /\ UNCHANGED << audio, probe, rng_state_, history >>

\* A field of the patch is written in place (engine.mutable_patch()).
PatchFieldWritten(index, value) ==
  /\ patch_' = PatchWrite(patch_, index, value)
  /\ UNCHANGED << modulation_sources_, nrpn_parameter_number_,
                  num_lfo_reset_steps_, lfo_reset_counter_, lfo_to_reset_,
                  lfo_, controller_ >>
  /\ UNCHANGED voiceVars
  /\ UNCHANGED << audio, probe, rng_state_, history >>

\* What the last operation of the editor did: the page it started from, the
\* group it was given, the indices of page_definition_ it read, whether it
\* wrote the EEPROM, the parameter definition it used and the
\* << index, value >> it handed to SynthesisEngine::SetParameter; entry is
\* the patch when the load/save mode was last entered; count is the number
\* of operations so far and turns the number of those that came from a knob
\* or from the encoder.
SwitchOperations == {"ToggleGroup", "EnterLoadSaveMode", "DoShiftFunction"}

EditInit ==
  [op |-> "Init", count |-> 0, turns |-> 0, page |-> PAGE_FILTER_FILTER,
   group |-> 0,
   reads |-> {}, saved |-> FALSE, definition |-> 0, written |-> << >>,
   entry |-> DefaultPatch]

Edited(op, what) ==
  edit' = what @@ [op |-> op, count |-> edit.count + 1,
                   turns |-> IF op \in SwitchOperations THEN edit.turns
                                                       ELSE edit.turns + 1,
                   page |-> current_page_, group |-> 0, reads |-> {},
                   saved |-> FALSE, definition |-> 0, written |-> << >>,
                   entry |-> IF op = "EnterLoadSaveMode" THEN patch_
                                                         ELSE edit.entry]

\* page_definition_[page].group: a page past the end of the table reads
\* whatever byte follows it.
GroupRead(page) ==
  IF page < kNumPages THEN {PageDefinition(page).group} ELSE 0 .. 255

\* Lines 388-393: the first page of the group.
FirstPageOf(group) ==
  CHOOSE i \in 0 .. (kNumPages - 1) :
    /\ PageDefinition(i).group = group
    /\ \A j \in 0 .. (i - 1) : PageDefinition(j).group # group

\* Lines 386-394: the next page, or the first page of the group when the
\* next page is outside the group.
NextPage(e, group) ==
  UNION {IF next # group
         THEN {[page |-> FirstPageOf(group),
                reads |-> {e.current_page_, e.current_page_ + 1}
                            \cup (0 .. FirstPageOf(group))]}
         ELSE {[page |-> e.current_page_ + 1,
                reads |-> {e.current_page_, e.current_page_ + 1}]} :
         next \in GroupRead(e.current_page_ + 1)}

\* Lines 380-395: the page a group other than load/save leads to, with the
\* indices of page_definition_ read on the way.
ToggleGroupPages(e, group) ==
  UNION {IF group # here
         THEN {[page |-> e.last_visited_page_[group],
                reads |-> {e.current_page_}]}
         ELSE NextPage(e, group) :
         here \in GroupRead(e.current_page_)}

\* Lines 370-403: Editor::ToggleGroup(group) for a group other than
\* load/save, as the set of [e, reads] it can end in.
ToggleGroupOther(e, group) ==
  {[e |-> [e EXCEPT
             !.cursor_ = 0,
             !.subpage_ = IF r.page = PAGE_MOD_MATRIX
                          THEN e.last_visited_subpage_ ELSE 0,
             !.current_page_ = r.page,
             !.last_visited_page_ = [@ EXCEPT ![group] = r.page]],
    reads |-> r.reads] : r \in ToggleGroupPages(e, group)}

\* Line 435: the test of Editor::EnterLoadSaveMode(), on the page and the
\* action it finds.
EnterLoadSaveModeSaves(page, action) ==
  page = PAGE_LOAD_SAVE /\ action = "ACTION_SAVE"

\* Lines 376-378 with lines 434-446: ToggleGroup(GROUP_LOAD_SAVE) sets the
\* page and calls EnterLoadSaveMode(), which saves the patch in the current
\* slot (EepromSave, then SysExSend packs the same image again), takes the
\* backup and leaves the action at exit.
ToggleGroupLoadSave(e) ==
  /\ IF EnterLoadSaveModeSaves(PAGE_LOAD_SAVE, e.action_)
     THEN EepromSave(e.current_patch_number_)
     ELSE SynthUntouched /\ UNCHANGED storeVars
  /\ undo_buffer_' = Pack(patch_)
  /\ EditorBecomes([e EXCEPT !.cursor_ = 0, !.subpage_ = 0,
                             !.current_page_ = PAGE_LOAD_SAVE,
                             !.previous_patch_number_ = e.current_patch_number_,
                             !.action_ = "ACTION_EXIT"])
  /\ Edited("EnterLoadSaveMode",
            [group |-> GROUP_LOAD_SAVE,
             saved |-> EnterLoadSaveModeSaves(PAGE_LOAD_SAVE, e.action_)])

\* Editor::ToggleGroup(group), from InputTask (shruti.cc line 144).  A page
\* two past the end of the table is not followed further.
ToggleGroup(group) ==
  /\ current_page_ <= kNumPages
  /\ IF group = GROUP_LOAD_SAVE
     THEN ToggleGroupLoadSave(EditorState)
     ELSE /\ \E r \in ToggleGroupOther(EditorState, group) :
               /\ EditorBecomes(r.e)
               /\ Edited("ToggleGroup", [group |-> group, reads |-> r.reads])
          /\ SynthUntouched
          /\ UNCHANGED << storeVars, undo_buffer_ >>

\* Lines 346-367: Editor::DoShiftFunction(group).
DoShiftFunction(group) ==
  /\ current_page_ <= kNumPages
  /\ CASE group = GROUP_PLAY ->
            /\ NoteOnEffect(48, IF test_note_playing_ # 0 THEN 0 ELSE 100)
            /\ EditorBecomes([EditorState EXCEPT
                                !.test_note_playing_ = IF @ # 0 THEN 0 ELSE 1])
            /\ Edited("DoShiftFunction", [group |-> group])
            /\ UNCHANGED undo_buffer_
       [] group = GROUP_OSC ->
            /\ \E r \in ToggleGroupOther(EditorState, GROUP_PERFORMANCE) :
                 /\ EditorBecomes(r.e)
                 /\ Edited("DoShiftFunction",
                           [group |-> GROUP_PERFORMANCE, reads |-> r.reads])
            /\ SynthUntouched
            /\ UNCHANGED << storeVars, undo_buffer_ >>
       [] group = GROUP_FILTER ->
            /\ EditorBecomes(
                 IF current_page_ <= PAGE_PLAY_KBD
                 THEN [EditorState EXCEPT
                         !.parameter_to_assign_ =
                            [id |-> PageDefinition(current_page_)
                                      .first_parameter_index
                                    + current_controller_,
                             subpage |-> subpage_],
                         !.assign_in_progress_ = 1]
                 ELSE EditorState)
            /\ Edited("DoShiftFunction",
                      [group |-> group,
                       reads |-> IF current_page_ <= PAGE_PLAY_KBD
                                 THEN {current_page_} ELSE {}])
            /\ SynthUntouched
            /\ UNCHANGED << storeVars, undo_buffer_ >>
       [] OTHER ->
            /\ EditorBecomes(EditorState)
            /\ Edited("DoShiftFunction", [group |-> group])
            /\ SynthUntouched
            /\ UNCHANGED << storeVars, undo_buffer_ >>

\* Lines 668-676: Editor::KnobIndexToParameterId(controller_index): the
\* index of the definition, and the subpage it leaves in subpage_.
KnobIndexToParameterId(e, controller_index) ==
  IF e.current_page_ = PAGE_PERFORMANCE
  THEN [index |-> e.assigned_parameters_[controller_index].id,
        subpage |-> e.assigned_parameters_[controller_index].subpage]
  ELSE [index |-> PageDefinition(e.current_page_).first_parameter_index
                    + controller_index,
        subpage |-> e.subpage_]

\* A tempo that is stored as it is asked for.
StoredValueUnchanged(id, value) == value

\* Lines 724-729: the value Editor::SetParameterWithHacks stores.
StoredValue(id, value) ==
  IF id = PRM_ARP_TEMPO /\ value < 40 THEN 0 ELSE value

\* Lines 731-737: the modulation page keeps its row for itself.
IsRowOfMatrixPage(page, id) == page = PAGE_MOD_MATRIX /\ id = PRM_MOD_ROW

\* Lines 741-752: Editor::GetParameterWithHacks(id).
GetParameterWithHacks(P, page, subpage, id) ==
  LET value == IF IsRowOfMatrixPage(page, id) THEN subpage
               ELSE GetParameter(P, id + subpage * 3)
  IN IF id = PRM_ARP_TEMPO /\ value = 0 THEN 39 ELSE value

\* Lines 723-738: Editor::SetParameterWithHacks(id, value) from the handler
\* op, with the editor as e once the handler has done its own part.
SetParameterWithHacks(op, e, definition, id, value) ==
  IF IsRowOfMatrixPage(e.current_page_, id)
  THEN /\ EditorBecomes([e EXCEPT !.subpage_ = StoredValue(id, value),
                                  !.last_visited_subpage_ =
                                     StoredValue(id, value)])
       /\ Edited(op, [definition |-> definition])
       /\ SynthUntouched
       /\ UNCHANGED storeVars
  ELSE /\ SetParameterCall(id + e.subpage_ * 3, StoredValue(id, value))
       /\ EditorBecomes(e)
       /\ Edited(op, [definition |-> definition,
                      written |-> << id + e.subpage_ * 3,
                                     StoredValue(id, value) >>])

\* Lines 689-695: the value a knob position stands for.
KnobValue(parameter, value) ==
  IF parameter.unit = "UNIT_RAW_UINT8" THEN ToUint8(Shr(value, 3))
  ELSE LET range == ToUint8(parameter.max_value - parameter.min_value + 1)
       IN ToUint8(ToUint8(Shr(ToUint16(Shr(value, 3) * range), 7))
                  + parameter.min_value)

\* Lines 679-699: Editor::HandleEditInput(controller_index, value).
HandleEditInput(controller_index, value) ==
  IF assign_in_progress_ # 0
  THEN /\ \E r \in ToggleGroupOther(
                     [EditorState EXCEPT
                        !.assigned_parameters_[controller_index] =
                           parameter_to_assign_,
                        !.assign_in_progress_ = 0], GROUP_PERFORMANCE) :
            /\ EditorBecomes(r.e)
            /\ Edited("HandleEditInput",
                      [group |-> GROUP_PERFORMANCE, reads |-> r.reads])
       /\ SynthUntouched
       /\ UNCHANGED storeVars
  ELSE LET k == KnobIndexToParameterId(EditorState, controller_index)
           parameter == parameter_definition(k.index)
       IN SetParameterWithHacks(
            "HandleEditInput",
            [EditorState EXCEPT !.subpage_ = k.subpage,
                                !.current_controller_ = controller_index],
            k.index, parameter.id, KnobValue(parameter, value))

\* An increment that is stored without a look at the bounds.
IncrementedUnbounded(parameter, value, direction) ==
  IF parameter.unit = "UNIT_INT8"
  THEN [store |-> TRUE, value |-> ToUint8(ToInt8(value) + direction)]
  ELSE [store |-> TRUE, value |-> ToUint8(value + direction)]

\* Lines 706-719: the value after an increment, and whether it is stored.
Incremented(parameter, value, direction) ==
  IF parameter.unit = "UNIT_INT8"
  THEN LET v == ToInt8(value) + direction
       IN [store |-> v >= ToInt8(parameter.min_value)
                       /\ v <= ToInt8(parameter.max_value),
           value |-> ToUint8(v)]
  ELSE LET v == value + direction
       IN [store |-> v >= parameter.min_value /\ v <= parameter.max_value,
           value |-> ToUint8(v)]

\* Lines 702-720: Editor::HandleEditIncrement(direction).
HandleEditIncrement(direction) ==
  LET k == KnobIndexToParameterId(EditorState, current_controller_)
      parameter == parameter_definition(k.index)
      e == [EditorState EXCEPT !.subpage_ = k.subpage]
      i == Incremented(parameter,
                       GetParameterWithHacks(patch_, current_page_, k.subpage,
                                             parameter.id),
                       direction)
  IN IF i.store
     THEN SetParameterWithHacks("HandleEditIncrement", e, k.index,
                                parameter.id, i.value)
     ELSE /\ EditorBecomes(e)
          /\ Edited("HandleEditIncrement", [definition |-> k.index])
          /\ SynthUntouched
          /\ UNCHANGED storeVars

\* kEepromSize / kSerializedPatchSize (line 453): the slots of a 1 KB EEPROM.
num_patches == 16

\* Lines 449-487: Editor::HandleLoadSaveInput(controller_index, value).
HandleLoadSaveInput(controller_index, value) ==
  LET e == EditorState
      new_patch == ToUint8(ToUint16(value * num_patches) \div 1024)
      tripled == ToUint16(value + ToUint16(value * 2))
  IN CASE controller_index = 0 ->
            /\ IF new_patch # current_patch_number_ /\ action_ = "ACTION_LOAD"
               THEN EepromLoad(new_patch)
               ELSE SynthUntouched /\ UNCHANGED storeVars
            /\ EditorBecomes([e EXCEPT !.current_patch_number_ = new_patch])
            /\ Edited("HandleLoadSaveInput", [definition |-> 0])
       [] controller_index = 1 ->
            /\ EditorBecomes(
                 IF action_ = "ACTION_SAVE"
                 THEN [e EXCEPT !.cursor_ =
                         ToUint8(ToUint16(value * kPatchNameSize) \div 1024)]
                 ELSE e)
            /\ Edited("HandleLoadSaveInput", [definition |-> 1])
            /\ SynthUntouched
            /\ UNCHANGED storeVars
       [] controller_index = 2 ->
            /\ IF action_ = "ACTION_SAVE"
               THEN PatchFieldWritten(PRM_NAME + cursor_,
                                      ToUint8(32 + Shr(tripled, 5)))
               ELSE SynthUntouched
            /\ EditorBecomes(e)
            /\ Edited("HandleLoadSaveInput", [definition |-> 2])
            /\ UNCHANGED storeVars
       [] controller_index = 3 ->
            /\ IF value >= 64 /\ action_ = "ACTION_LOAD"
               THEN /\ PatchInstalled(Unpack(patch_, undo_buffer_), TRUE)
                    /\ UNCHANGED storeVars
               ELSE SynthUntouched /\ UNCHANGED storeVars
            /\ EditorBecomes(
                 IF value < 64 THEN [e EXCEPT !.action_ = "ACTION_LOAD"]
                 ELSE [e EXCEPT
                         !.current_patch_number_ =
                            IF action_ = "ACTION_LOAD"
                            THEN previous_patch_number_ ELSE @,
                         !.action_ = IF value >= 960 THEN "ACTION_SAVE"
                                                     ELSE "ACTION_EXIT"])
            /\ Edited("HandleLoadSaveInput", [definition |-> 3])

\* Lines 490-498: Editor::HandleLoadSaveIncrement(direction).
HandleLoadSaveIncrement(direction) ==
  LET value == ToUint8(patch_[PRM_NAME + cursor_] + direction)
  IN /\ IF action_ = "ACTION_SAVE" /\ value >= 32 /\ value <= 128
        THEN PatchFieldWritten(PRM_NAME + cursor_, value)
        ELSE SynthUntouched
     /\ EditorBecomes(EditorState)
     /\ Edited("HandleLoadSaveIncrement", [definition |-> 0])
     /\ UNCHANGED storeVars

\* Lines 406-409: Editor::HandleInput(controller_index, value), from
\* InputTask (shruti.cc line 167), on the pages of the parameter editor and
\* on the load/save page.
HandleInput(controller_index, value) ==
  /\ current_page_ < kNumPages
  /\ CASE PageDefinition(current_page_).ui_type = "PARAMETER_EDITOR" ->
            HandleEditInput(controller_index, value)
       [] PageDefinition(current_page_).ui_type = "LOAD_SAVE" ->
            HandleLoadSaveInput(controller_index, value)
       [] OTHER -> FALSE
  /\ UNCHANGED undo_buffer_

\* Lines 412-415: Editor::HandleIncrement(direction), from InputTask
\* (shruti.cc line 148), on the same pages.
HandleIncrement(direction) ==
  /\ current_page_ < kNumPages
  /\ CASE PageDefinition(current_page_).ui_type = "PARAMETER_EDITOR" ->
            HandleEditIncrement(direction)
       [] PageDefinition(current_page_).ui_type = "LOAD_SAVE" ->
            HandleLoadSaveIncrement(direction)
       [] OTHER -> FALSE
  /\ UNCHANGED undo_buffer_

\* Lines 300-332: the statics of the editor at power-on.
EditorInit ==
  /\ undo_buffer_ = [i \in ImageIndex |-> 0]
  /\ current_page_ = PAGE_FILTER_FILTER
  /\ last_visited_page_ =
       [g \in Groups |->
          CASE g = GROUP_OSC -> PAGE_OSC_OSC_1
            [] g = GROUP_FILTER -> PAGE_FILTER_FILTER
            [] g = GROUP_MOD -> PAGE_MOD_ENV_1
            [] g = GROUP_PLAY -> PAGE_PLAY_ARP
            [] g = GROUP_LOAD_SAVE -> PAGE_LOAD_SAVE
            [] OTHER -> PAGE_PERFORMANCE]
  /\ subpage_ = 0
  /\ last_visited_subpage_ = 0
  /\ cursor_ = 0
  /\ action_ = "ACTION_LOAD"
  /\ current_patch_number_ = 0
  /\ previous_patch_number_ = 0
  /\ current_controller_ = 0
  /\ test_note_playing_ = 0
  /\ assign_in_progress_ = 0
  /\ assigned_parameters_ =
       [k \in 0 .. (kNumEditingPots - 1) |->
          CASE k = 0 -> [id |-> 1, subpage |-> 0]
            [] k = 1 -> [id |-> PRM_FILTER_CUTOFF, subpage |-> 0]
            [] k = 2 -> [id |-> PRM_FILTER_ENV, subpage |-> 0]
            [] OTHER -> [id |-> 25, subpage |-> 0]]
  /\ parameter_to_assign_ = [id |-> 0, subpage |-> 0]
  /\ edit = EditInit

(***************************************************************************)
EngineInit ==
  LET c == ControllerInit(DefaultPatch)
      u == UpdateModulationIncrements(
             DefaultPatch, c,
             [i \in 0 .. (kNumLfos - 1) |-> LfoInit],
             [i \in 0 .. (kNumEnvelopes - 1) |-> EnvelopeInit])
  IN /\ patch_ = DefaultPatch
     /\ controller_ = c
     /\ num_lfo_reset_steps_ = u.steps
     /\ lfo_to_reset_ = u.to_reset
     /\ lfo_ = u.lfo
     /\ envelope_ = u.envelope
     /\ lfo_reset_counter_ = 0
     /\ nrpn_parameter_number_ = 255
     /\ modulation_sources_ =
          [g \in GlobalSources |-> IF g = MOD_SRC_PITCH_BEND THEN 128 ELSE 0]
     /\ dead_ = FALSE
     /\ pitch_increment_ = 0
     /\ pitch_target_ = 0
     /\ pitch_value_ = 0
     /\ voice_modulation_sources_ = [v \in VoiceSources |-> 0]
     /\ modulation_destinations_ = [d \in Destinations |-> 0]
     /\ dst = [d \in Destinations |-> 0]
     /\ signal_ = 128
     /\ osc1_phase_msb_ = 0
     /\ oscillator_ = UpdateOscillatorAlgorithms(
                         [i \in Oscillators |-> OscillatorInit], DefaultPatch)
     /\ rng_state_ = 1

     /\ audio = AudioInit
     /\ probe = ProbeInit
     /\ history = HistoryInit

Init == EngineInit /\ StoreInit /\ EditorInit

(***************************************************************************)
(* SynthesisEngine::CheckChannel / OmniModeOff / OmniModeOn                *)
(***************************************************************************)
\* A test that takes the stored number for the channel itself.
CheckChannelUnshifted(P, channel) ==
  P[PRM_KBD_MIDI_CHANNEL] = 0 \/ P[PRM_KBD_MIDI_CHANNEL] = channel

\* Lines 163-166.
CheckChannel(P, channel) ==
  P[PRM_KBD_MIDI_CHANNEL] = 0 \/ P[PRM_KBD_MIDI_CHANNEL] = channel + 1

\* Lines 192-194.
OmniModeOff(channel) ==
  /\ patch_' = [patch_ EXCEPT ![PRM_KBD_MIDI_CHANNEL] = ToUint8(channel + 1)]
  /\ history' = [history EXCEPT !.op = "OmniModeOff", !.writes = @ + 1]
  /\ UNCHANGED << modulation_sources_, nrpn_parameter_number_,
                  num_lfo_reset_steps_, lfo_reset_counter_, lfo_to_reset_,
                  lfo_, controller_ >>
  /\ UNCHANGED voiceVars
  /\ UNCHANGED << audio, probe, storeVars, editorVars, rng_state_ >>

\* Lines 198-200.
OmniModeOn ==
  /\ patch_' = [patch_ EXCEPT ![PRM_KBD_MIDI_CHANNEL] = 0]
  /\ history' = [history EXCEPT !.op = "OmniModeOn", !.writes = @ + 1]
  /\ UNCHANGED << modulation_sources_, nrpn_parameter_number_,
                  num_lfo_reset_steps_, lfo_reset_counter_, lfo_to_reset_,
                  lfo_, controller_ >>
  /\ UNCHANGED voiceVars
  /\ UNCHANGED << audio, probe, storeVars, editorVars, rng_state_ >>

(***************************************************************************)
(* Specifications.  Each one drives the same operations with the inputs    *)
(* that matter to one part of the engine.                                  *)
(***************************************************************************)
MaxWrites == 2
MaxTriggers == 2

\* Parameter dispatch: the envelope and arpeggiator settings.
DispatchIndices ==
  {PRM_ENV_ATTACK_1, PRM_ENV_RELEASE_1 + 1,
   PRM_ARP_TEMPO, PRM_ARP_OCTAVE, PRM_ARP_PATTERN, PRM_ARP_SWING,
   PRM_ARP_PATTERN_SIZE, PRM_FILTER_RESONANCE}
DispatchValues(index) ==
  CASE index = PRM_ARP_TEMPO -> {0, 60, 120}
    [] index = PRM_ARP_PATTERN_SIZE -> {8, 16}
    [] OTHER -> {5, 127}
DispatchControllers == {"kDataEntryMsb", "kRelease", "kAttack", "kNrpnMsb", "other"}
DispatchControllerValues == {5, PRM_ENV_DECAY_1 + 1, PRM_ARP_SWING, 127}

NextDispatch ==
  \/ /\ history.writes < MaxWrites
     /\ \E index \in DispatchIndices : \E value \in DispatchValues(index) :
          SetParameter(index, value)
  \/ /\ history.writes < MaxWrites
     /\ \E controller \in DispatchControllers, value \in DispatchControllerValues :
          ControlChange(controller, value)
  \/ ControlTick(FALSE, FALSE)

Spec == Init /\ [][NextDispatch]_vars

\* The modulation matrix: amounts, base values and the controller aliases.
MatrixIndices == {ModAmount(4), ModAmount(5), ModAmount(6), ModAmount(7)}
MatrixValues(index) == IF index = ModAmount(4) THEN {200} ELSE {0}
MatrixControllers == {"kModulationWheelMsb", "kHarmonicIntensity"}
MatrixControllerValues == {127}
Notes == {60}
Velocities == {100}

NextMatrix ==
  \/ /\ history.writes < MaxWrites
     /\ \E index \in MatrixIndices : \E value \in MatrixValues(index) :
          SetParameter(index, value)
  \/ /\ history.writes < MaxWrites
     /\ \E controller \in MatrixControllers, value \in MatrixControllerValues :
          ControlChange(controller, value)
  \/ /\ ~controller_.active
     /\ \E note \in Notes, velocity \in Velocities : NoteOn(note, velocity)
  \/ /\ EnvelopeDead(envelope_[0])
     /\ \E note \in Notes, velocity \in Velocities : Trigger(note, velocity, FALSE)
  \/ ControlTick(FALSE, FALSE)

SpecMatrix == Init /\ [][NextMatrix]_vars

\* The amplitude destination: one entry evaluated for both signs, at the
\* first, the wheel-scaled and the last position.
AmplitudePositions == {0, kSavedModulationMatrixSize - 1, kModulationMatrixSize - 1}
AmplitudeAmounts == {1, 2, 31, 63}
AmplitudeValues == {0, 1, 127, 128, 254, 255}
WheelValues == {0, 1, 64, 127}

NextAmplitude ==
  \/ /\ history.writes < MaxWrites
     /\ \E value \in WheelValues : ControlChange("kModulationWheelMsb", value)
  \/ \E i \in AmplitudePositions, a \in AmplitudeAmounts, v \in AmplitudeValues :
       EvaluateAmplitude(i, a, v)

SpecAmplitude == Init /\ [][NextAmplitude]_vars

\* Pitch and portamento: two notes, with and without a scale that moves the
\* second one by a few steps, for immediate, fast and slower slides.
PitchNotes == {60, 62}
PitchIndices == {PRM_KBD_RAGA, PRM_KBD_PORTAMENTO}
PitchValues(index) == IF index = PRM_KBD_RAGA THEN {0, 1} ELSE {40}
PortamentoValues == {20}

NextPitch ==
  \/ /\ history.writes < MaxWrites
     /\ \E index \in PitchIndices : \E value \in PitchValues(index) :
          SetParameter(index, value)
  \/ /\ history.writes < MaxWrites
     /\ \E value \in PortamentoValues : ControlChange("kPortamentoTimeMsb", value)
  \/ /\ ~controller_.active
     /\ \E note \in PitchNotes, velocity \in Velocities : NoteOn(note, velocity)
  \/ /\ history.triggers < MaxTriggers
     /\ \E note \in PitchNotes, velocity \in Velocities, legato \in BOOLEAN :
          Trigger(note, velocity, legato)
  \/ VoiceControlTick

SpecPitch == Init /\ [][NextPitch]_vars

\* The control tick keeps running: the rendering task is scheduled for as
\* long as the timer interrupt drains the audio buffer.
SpecPitchFair == SpecPitch /\ WF_vars(VoiceControlTick)


\* One matrix entry evaluated alone: at the first, the wheel-scaled and the
\* last position, from a centered and from a plain source, to an additive
\* destination within and beyond the working range and to the amplitude.
EntryPositions == {0, kSavedModulationMatrixSize - 1, kModulationMatrixSize - 1}
EntrySources == {MOD_SRC_LFO_1, MOD_SRC_LFO_2, MOD_SRC_SEQ, MOD_SRC_PITCH_BEND,
                 MOD_SRC_VELOCITY, MOD_SRC_NOTE}
EntryDestinations == {MOD_DST_VCA, MOD_DST_PWM_1, MOD_DST_FILTER_RESONANCE}
EntryAmounts == {-63, -1, 0, 1, 63}
EntryValues == {0, 128, 255}
EntryBases == {0, 60, 100}

NextEntry ==
  \/ /\ history.writes < MaxWrites
     /\ probe = ProbeInit
     /\ \E value \in WheelValues : ControlChange("kModulationWheelMsb", value)
  \/ /\ probe = ProbeInit
     /\ \E i \in EntryPositions, source \in EntrySources,
           destination \in EntryDestinations, a \in EntryAmounts,
           v \in EntryValues, base \in EntryBases :
          EvaluateEntry(i, source, destination, a, v, base)

SpecEntry == Init /\ [][NextEntry]_vars

\* The two LFO rates: every pair of tempo-synced rates, and free-running
\* rates from the first one up.
RateInputs == (0 .. 18) \cup {96, 143}
PhaseInputs == {0, 1000, 65000}

NextRates ==
  /\ probe = ProbeInit
  /\ \E rate_1 \in RateInputs, rate_2 \in RateInputs, phase \in PhaseInputs :
       EvaluateRates(rate_1, rate_2, phase)

SpecRates == Init /\ [][NextRates]_vars

\* SysEx messages, well formed and not, read one byte per run of MidiTask.
MaxTransfers == 2
MessageKinds == {"good", "checksum", "footer", "restart", "command", "short"}
SentPatch ==
  [DefaultPatch EXCEPT ![PRM_OSC_SHAPE_1] = WAVEFORM_SQUARE, ![PRM_NAME] = 65]
SentImages == {Pack(SentPatch), [Pack(SentPatch) EXCEPT ![6] = 200]}

NextSysEx ==
  \/ /\ transfer.count < MaxTransfers
     /\ \E kind \in MessageKinds, image \in SentImages : Receive(kind, image)
  \/ MidiTask

SpecSysEx == Init /\ [][NextSysEx]_vars

\* A transfer with the editor at work: the load and the save of a slot run
\* between two runs of MidiTask.
MaxEdits == 1

NextStore ==
  \/ /\ transfer.count < MaxTransfers - 1
     /\ \E image \in SentImages : Receive("good", image)
  \/ MidiTask
  \/ /\ transfer.edits < MaxEdits
     /\ \E slot \in EepromSlots : EepromSave(slot)
     /\ UNCHANGED editorVars
  \/ /\ transfer.edits < MaxEdits
     /\ \E slot \in EepromSlots : EepromLoad(slot)
     /\ UNCHANGED editorVars

SpecStore == Init /\ [][NextStore]_vars

\* The loads and the saves of the slots of the EEPROM, one after the other.
MaxLoads == 4

NextEeprom ==
  \/ /\ transfer.edits < MaxLoads
     /\ \E slot \in EepromSlots \cup OtherSlots : EepromLoad(slot)
     /\ UNCHANGED editorVars
  \/ /\ transfer.edits < MaxLoads
     /\ \E slot \in EepromSlots : EepromSave(slot)
     /\ UNCHANGED editorVars

SpecEeprom == Init /\ [][NextEeprom]_vars

\* The round trip of a patch: what SysExSend writes for it is read back, a
\* byte per run of MidiTask, after a message that was cut or read in full.
RoundTripPatches ==
  { DefaultPatch,
    SentPatch,
    [DefaultPatch EXCEPT ![PRM_OSC_PARAMETER_1] = 255,
                         ![ModSource(0)] = MOD_SRC_GATE,
                         ![ModDestination(0)] = 15,
                         ![ModAmount(0)] = 193,
                         ![PRM_SEQUENCE] = 255,
                         ![PRM_NAME + kPatchNameSize - 1] = 128],
    [DefaultPatch EXCEPT ![ModDestination(1)] = 16] }
RoundTripKinds == {"good", "cut"}

NextRoundTrip ==
  \/ /\ transfer.count < MaxTransfers
     /\ \E kind \in RoundTripKinds, p \in RoundTripPatches :
          Receive(kind, Pack(p))
  \/ MidiTask

SpecRoundTrip == Init /\ [][NextRoundTrip]_vars

\* Messages that stop in their header or in their data, go on after their
\* end or carry too many data bytes, each followed by the start of another.
RestartKinds == {"good", "command", "cut", "head", "trailing", "long"}

NextRestart ==
  \/ /\ transfer.count < MaxTransfers
     /\ \E kind \in RestartKinds : Receive(kind, Pack(SentPatch))
  \/ MidiTask

SpecRestart == Init /\ [][NextRestart]_vars

\* The load/save page: the group switches of the oscillators and of
\* load/save, the four knobs and the two increment switches.
MaxEditorOps == 5
LoadSaveGroups == {GROUP_OSC, GROUP_LOAD_SAVE}
LoadSaveInputs ==
  { << 0, 0 >>, << 0, 64 >>, << 1, 1023 >>, << 2, 1023 >>,
    << 3, 0 >>, << 3, 64 >>, << 3, 960 >> }
Directions == {-1, 1}

NextLoadSave ==
  \/ /\ edit.count < MaxEditorOps
     /\ \E group \in LoadSaveGroups : ToggleGroup(group)
  \/ /\ edit.count < MaxEditorOps
     /\ \E input \in LoadSaveInputs : HandleInput(input[1], input[2])
  \/ /\ edit.count < MaxEditorOps
     /\ \E direction \in Directions : HandleIncrement(direction)

SpecLoadSave == Init /\ [][NextLoadSave]_vars

\* The parameter editor: the group switches lead to a page, then its knobs
\* are turned to both ends and to the position of the slowest tempo, and
\* the value under the last knob is stepped up and down.
MaxPresses == 4
MaxKnobEdits == 2
EditGroups == Groups \ {GROUP_LOAD_SAVE}
EditInputs ==
  {<< controller_index, value >> :
     controller_index \in 0 .. (kNumEditingPots - 1), value \in {0, 1023}}
    \cup {<< 0, 80 >>}

NextEdit ==
  \/ /\ edit.count < MaxPresses
     /\ edit.op \in {"Init", "ToggleGroup"}
     /\ \E group \in EditGroups : ToggleGroup(group)
  \/ /\ edit.turns < MaxKnobEdits
     /\ \E input \in EditInputs : HandleInput(input[1], input[2])
  \/ /\ edit.turns < MaxKnobEdits
     /\ \E direction \in Directions : HandleIncrement(direction)

SpecEdit == Init /\ [][NextEdit]_vars

\* The pages: the group switches and their shift functions in any order,
\* and a knob touched on the page they lead to.
MaxPageOps == 4
ShiftGroups == {GROUP_OSC, GROUP_FILTER, GROUP_PLAY}
PageInputs == {<< 0, 0 >>, << 3, 1023 >>}

NextPages ==
  \/ /\ edit.count < MaxPageOps
     /\ \E group \in EditGroups : ToggleGroup(group)
  \/ /\ edit.count < MaxPageOps
     /\ \E group \in ShiftGroups : DoShiftFunction(group)
  \/ /\ edit.count < MaxPageOps
     /\ \E input \in PageInputs : HandleInput(input[1], input[2])

SpecPages == Init /\ [][NextPages]_vars

\* The tempo-synced LFOs: rate writes between runs of the reset counter,
\* the external clock, notes, and ticks on which the sequencer moves.
LfoIndices == {PRM_LFO_RATE_1, PRM_LFO_RATE_2, PRM_ARP_TEMPO}
LfoValues(index) ==
  CASE index = PRM_LFO_RATE_1 -> {0, 3, 96}
    [] index = PRM_LFO_RATE_2 -> {7}
    [] OTHER -> {0}

NextLfo ==
  \/ /\ history.writes < MaxWrites
     /\ lfo_reset_counter_ = 0
     /\ \E index \in LfoIndices : \E value \in LfoValues(index) :
          /\ patch_[index] # value
          /\ SetParameter(index, value)
  \/ \E note \in Notes, velocity \in Velocities : NoteOn(note, velocity)
  \/ \E note \in Notes : NoteOff(note)
  \/ Clock
  \/ ControlTick(TRUE, FALSE)

SpecLfo == Init /\ [][NextLfo]_vars


\* The LFO rates written at any point of a run of the reset counter, between
\* notes and ticks on which the sequencer moves; a counter that has run past
\* the longest cadence written here (4 * 8 steps) is followed no further.
MaxResetCounter == 34

NextLfoWrite ==
  \/ /\ history.writes < MaxWrites
     /\ \E index \in {PRM_LFO_RATE_1, PRM_LFO_RATE_2} :
          \E value \in LfoValues(index) :
            /\ patch_[index] # value
            /\ SetParameter(index, value)
  \/ \E note \in Notes, velocity \in Velocities : NoteOn(note, velocity)
  \/ /\ lfo_reset_counter_ < MaxResetCounter
     /\ ControlTick(TRUE, FALSE)

SpecLfoWrite == Init /\ [][NextLfoWrite]_vars
\* The rendering task against the timer interrupt.
NextAudio ==
  \/ \E stepped \in BOOLEAN : AudioRenderingTaskBegin(stepped, FALSE)
  \/ AudioRenderingTaskSkip
  \/ AudioRenderingTaskSample
  \/ TimerTick

SpecAudio == Init /\ [][NextAudio]_vars

\* The patch written byte by byte, at every index, and the channel messages.
MaxPatchWrites == 1
WriteValues == {0, 5, 255}
Channels == 0 .. 15

NextWrite ==
  \/ /\ history.writes < MaxPatchWrites
     /\ \E index \in PatchIndex, value \in WriteValues : SetParameter(index, value)
  \/ /\ history.writes < MaxPatchWrites
     /\ \E channel \in Channels : OmniModeOff(channel)
  \/ /\ history.writes < MaxPatchWrites
     /\ OmniModeOn

SpecWrite == Init /\ [][NextWrite]_vars

\* One voice played and rendered: notes triggered and released between the
\* steps of the rendering task, which fills the audio buffer and stops.
NextVoice ==
  \/ /\ ~controller_.active
     /\ \E note \in Notes, velocity \in Velocities : NoteOn(note, velocity)
  \/ /\ history.triggers < MaxTriggers
     /\ \E note \in PitchNotes, velocity \in Velocities, legato \in BOOLEAN :
          Trigger(note, velocity, legato)
  \/ /\ ~EnvelopeDead(envelope_[0])
     /\ Release
  \/ AudioRenderingTaskBegin(FALSE, FALSE)
  \/ AudioRenderingTaskSkip
  \/ AudioRenderingTaskSample

SpecVoice == Init /\ [][NextVoice]_vars

\* One voice rendered at a pitch whose phase wraps on the ninth sample,
\* the timer interrupt making room in the audio buffer, while the option of
\* oscillator 1 is written between two runs of the rendering task.  The
\* task is followed from the trigger of the note to the end of the block in
\* which the phase of oscillator 1 wraps.
PhaseHasWrapped(o) ==
  o.phase # 0 /\ o.phase < kAudioBlockSize * o.increment

MaxOptionWrites == 2
SyncNotes == {106}
SyncOptions == {0, SYNC, RING_MOD, XOR}

NextSync ==
  \/ /\ ~controller_.active
     /\ audio.pc = "idle"
     /\ \E note \in SyncNotes, velocity \in Velocities : NoteOn(note, velocity)
  \/ /\ history.triggers < MaxTriggers - 1
     /\ audio.pc = "idle"
     /\ \E note \in SyncNotes, velocity \in Velocities :
          Trigger(note, velocity, FALSE)
  \/ /\ history.writes < MaxOptionWrites
     /\ audio.pc = "idle"
     /\ \E value \in SyncOptions :
          /\ patch_[PRM_OSC_OPTION_1] # value
          /\ SetParameter(PRM_OSC_OPTION_1, value)
  \/ /\ history.triggers > 0
     /\ ~PhaseHasWrapped(oscillator_[0])
     /\ AudioRenderingTaskBegin(FALSE, FALSE)
  \/ AudioRenderingTaskSkip
  \/ AudioRenderingTaskSample
  \/ TimerTick

SpecSync == Init /\ [][NextSync]_vars

\* The oscillator mix: every sample of oscillator 1 against chosen samples
\* of oscillator 2, with and without a balance and a sub oscillator level,
\* each evaluated from the state after Init.
MixSamples == 0 .. 255
MixOtherSamples == {0, 1, 85, 108, 128, 170, 178, 255}
MixOptions == {0, RING_MOD, XOR}
MixBalances == {0, 64, 255}
MixShapes == {0, WAVEFORM_VOWEL}
MixSubLevels == {0, 128}

NextMix ==
  /\ probe = ProbeInit
  /\ \E osc_1 \in MixSamples, osc_2 \in MixOtherSamples, option \in MixOptions,
        balance \in MixBalances, shape \in MixShapes,
        sub_level \in MixSubLevels :
       EvaluateMix(osc_1, osc_2, option, balance, shape, sub_level)

SpecMix == Init /\ [][NextMix]_vars

\* The oscillator increments: assembled pitches from two octaves below the
\* lowest note to the top of the 14-bit range, each evaluated from the state
\* after Init.
PitchInputs == (0 - 2 * kOctave) .. (2^14 - 1)

NextIncrement ==
  /\ probe = ProbeInit
  /\ \E pitch \in PitchInputs : EvaluateIncrement(pitch)

SpecIncrement == Init /\ [][NextIncrement]_vars

(***************************************************************************)
(* Properties of the parameter dispatch.                                   *)
(***************************************************************************)
\* C9: after any sequence of SetParameter() calls, the note controller's
\* copies of the arpeggiator tempo, octave range, pattern, swing and pattern
\* size equal the patch's fields.
ControllerCopiesFollowPatch ==
  /\ controller_.tempo = patch_[PRM_ARP_TEMPO]
  /\ controller_.octaves = patch_[PRM_ARP_OCTAVE]
  /\ controller_.pattern = patch_[PRM_ARP_PATTERN]
  /\ controller_.swing = patch_[PRM_ARP_SWING]
  /\ controller_.pattern_size = patch_[PRM_ARP_PATTERN_SIZE]

\* Two writes, to the swing and to the tempo, have been forwarded.
ControllerCopiesWritten ==
  /\ history.op = "SetParameter"
  /\ history.writes = 2
  /\ patch_[PRM_ARP_SWING] = 127
  /\ controller_.swing = 127
  /\ patch_[PRM_ARP_TEMPO] = 60
  /\ controller_.tempo = 60

\* C10: each envelope slot is configured with the patch's current attack,
\* decay, sustain and release of that slot, in every state a Control() tick
\* can start from.
EnvelopesFollowPatch ==
  \A i \in 0 .. (kNumEnvelopes - 1) :
    /\ envelope_[i].attack = patch_[PRM_ENV_ATTACK_1 + i]
    /\ envelope_[i].decay = patch_[PRM_ENV_DECAY_1 + i]
    /\ envelope_[i].sustain = patch_[PRM_ENV_SUSTAIN_1 + i]
    /\ envelope_[i].release = patch_[PRM_ENV_RELEASE_1 + i]

(***************************************************************************)
(* Properties of the modulation matrix.                                    *)
(***************************************************************************)
\* C1: after a Control() tick every additive accumulator, as it is scaled
\* down and stored, is within 0 .. 16383, whatever SetParameter() and
\* ControlChange() made of the patch, the destinations no entry targets
\* included.
AccumulatorsInRange ==
  history.op = "Control" =>
    \A d \in AdditiveDestinations : dst[d] >= 0 /\ dst[d] <= 16383

\* No entry with a nonzero stored amount targets destination d.
Untargeted(d) ==
  \A i \in 0 .. (kModulationMatrixSize - 1) :
    patch_[ModDestination(i)] = d => patch_[ModAmount(i)] = 0

\* Parameter value p scaled up by 2^up into the working range, scaled down
\* by 2^down and stored in a byte.
ScaledBase(p, up, down) == ((p * (2 ^ up)) \div (2 ^ down)) % 256

\* Destination d resolved to its base value.
ResolvedToBase(d) ==
  CASE d = MOD_DST_FILTER_CUTOFF ->
         modulation_destinations_[d] = ScaledBase(patch_[PRM_FILTER_CUTOFF], 7, 6)
    [] d = MOD_DST_VCA -> modulation_destinations_[d] = 255
    [] d = MOD_DST_PWM_1 ->
         modulation_destinations_[d] = ScaledBase(patch_[PRM_OSC_PARAMETER_1], 7, 7)
    [] d = MOD_DST_PWM_2 ->
         modulation_destinations_[d] = ScaledBase(patch_[PRM_OSC_PARAMETER_2], 7, 7)
    [] d = MOD_DST_MIX_BALANCE ->
         modulation_destinations_[d] = ScaledBase(patch_[PRM_MIX_BALANCE], 8, 6)
    [] d = MOD_DST_MIX_NOISE ->
         modulation_destinations_[d] = ScaledBase(patch_[PRM_MIX_NOISE], 8, 8)
    [] d = MOD_DST_MIX_SUB_OSC ->
         modulation_destinations_[d] = ScaledBase(patch_[PRM_MIX_SUB_OSC], 8, 7)
    [] d = MOD_DST_FILTER_RESONANCE ->
         modulation_destinations_[d] = ScaledBase(patch_[PRM_FILTER_RESONANCE], 8, 6)
    [] OTHER -> dst[d] = 8192

AmplitudeSignSymmetric == probe.direct = probe.inverted

(***************************************************************************)
(* Properties of the pitch slide.                                          *)
(***************************************************************************)
Converged == pitch_value_ = pitch_target_ /\ pitch_increment_ = 0

\* C4: once no further Trigger occurs, the Control() ticks reach
\* pitch_value_ = pitch_target_ with pitch_increment_ = 0 and stay there.
SlideConverges == <>[]Converged

\* A slide under way: a second note was triggered a few steps above the
\* pitch and the pitch is moving up by the forced step of one.
SlideUnderWay ==
  /\ history.op = "VoiceControl"
  /\ history.triggers = 2
  /\ patch_[PRM_KBD_PORTAMENTO] = 40
  /\ pitch_target_ - pitch_value_ \in 1 .. 4
  /\ pitch_increment_ = 1

\* C5: a Trigger() that finds the pitch at the power-on value 0 leaves
\* pitch_value_ equal to pitch_target_, for every note, legato flag and
\* portamento time.
FirstNoteSnaps ==
  (history.op = "Trigger" /\ history.value_before = 0) =>
    pitch_value_ = pitch_target_

\* The first note triggered with a slow portamento set.
FirstNoteTriggered ==
  /\ history.op = "Trigger"
  /\ history.value_before = 0
  /\ patch_[PRM_KBD_PORTAMENTO] = 40
  /\ pitch_value_ = 62 * 128
  /\ pitch_target_ = 62 * 128

(***************************************************************************)
(* Properties of the tempo-synced LFO reset.                               *)
(***************************************************************************)
BothSynced == patch_[PRM_LFO_RATE_1] < 16 /\ patch_[PRM_LFO_RATE_2] < 16

Cadence == (1 + patch_[PRM_LFO_RATE_1]) * (1 + patch_[PRM_LFO_RATE_2])

\* C6: with both LFOs synced at rates r1, r2 in 0 .. 15, a run of step
\* advances that starts with the reset counter at 0 resets both phases and
\* the counter on its ((1 + r1) * (1 + r2))-th step advance, and on none
\* before it.
ResyncOnCadence ==
  BothSynced =>
    /\ history.run_len >= 0 => history.run_len < Cadence
    /\ (history.op = "Control" /\ history.stepped /\ history.resynced
          /\ history.resync_at >= 0) =>
         /\ history.resync_at = Cadence
         /\ lfo_[0].phase = 0
         /\ lfo_[1].phase = 0
         /\ lfo_reset_counter_ = 0

\* The rates 3 and 7: the resync on the 32nd step advance.
ResyncOnThirtySecondStep ==
  /\ patch_[PRM_LFO_RATE_1] = 3
  /\ patch_[PRM_LFO_RATE_2] = 7
  /\ history.op = "Control"
  /\ history.resynced
  /\ history.resync_at = 32
  /\ lfo_[0].phase = 0
  /\ lfo_[1].phase = 0

\* The increments UpdateModulationIncrements() computes in this state.
IncrementsCurrent ==
  \A i \in 0 .. (kNumLfos - 1) :
    lfo_[i].increment =
      UpdateModulationIncrements(patch_, controller_, lfo_, envelope_).lfo[i].increment

\* C7: after a NoteOn() that found the controller not active, with no
\* parameter write since, the first Control() tick on which the sequencer
\* advances resets the phase of every synced LFO and recomputes the
\* increments; a NoteOn() that finds the controller active leaves the reset
\* counter as it was.
NoteOnPrimesResync ==
  /\ (history.op = "Control" /\ history.stepped /\ history.was_primed) =>
       /\ history.resynced
       /\ \A i \in 0 .. (kNumLfos - 1) :
            patch_[PRM_LFO_RATE_1 + i] < 16 => lfo_[i].phase = 0
       /\ IncrementsCurrent
       /\ lfo_reset_counter_ = 0
  /\ (history.op = "NoteOn" /\ history.was_active) =>
       lfo_reset_counter_ = history.counter_before

\* The first step after a note on resyncs to a beat the clock has changed.
PrimedResyncDone ==
  /\ history.op = "Control"
  /\ history.stepped
  /\ history.was_primed
  /\ history.resynced
  /\ controller_.estimated_beat_duration = 32
  /\ lfo_[1].phase = 0
  /\ lfo_[1].increment = 2048

(***************************************************************************)
(* Properties of the audio rendering task.                                 *)
(***************************************************************************)
\* The calls a run of the task has made, and the room left for the rest of
\* its block.
BlockAccounted ==
  /\ ~audio.overrun
  /\ audio.available <= kAudioBufferSize
  /\ audio.pc = "render" =>
       /\ audio.remaining > 0
       /\ audio.controls = 1
       /\ audio.audios = kAudioBlockSize - audio.remaining
       /\ audio.written = audio.audios
       /\ audio.checked >= kAudioBlockSize
       /\ audio.available + audio.remaining <= kAudioBufferSize
  /\ (audio.pc = "idle" /\ audio.last = "rendered") =>
       /\ audio.controls = 1
       /\ audio.audios = kAudioBlockSize
       /\ audio.written = kAudioBlockSize
  /\ (audio.pc = "idle" /\ audio.last = "skipped") =>
       /\ audio.controls = 0
       /\ audio.audios = 0
       /\ audio.written = 0

\* A run that finds no writable block changes nothing of the engine.
SkipLeavesEngine ==
  (audio.pc = "idle" /\ ~WritableBlock(audio) /\ audio'.pc = "idle") =>
    /\ UNCHANGED engineVars
    /\ UNCHANGED voiceVars
    /\ UNCHANGED rng_state_

\* The control state moves only as a run that found a writable block begins.
ControlOnlyOnBegin ==
  (engineVars' # engineVars \/ voiceVars' # voiceVars) =>
    /\ audio.pc = "idle"
    /\ WritableBlock(audio)
    /\ audio'.pc = "render"
    /\ audio'.remaining = kAudioBlockSize

\* C8: the rendering task never waits for room.  Without a writable block
\* it returns with no Control(), no Audio() and the engine unchanged; with
\* one it runs Control() once, then Audio() kAudioBlockSize times with one
\* sample written after each, never more samples than the room it saw, while
\* the timer interrupt takes samples out.
RenderingNeverBlocks ==
  []BlockAccounted /\ [][SkipLeavesEngine /\ ControlOnlyOnBegin]_vars

\* The last sample of a block is due and the interrupt has taken samples
\* out since the run began.
BlockRenderedWhileConsumed ==
  /\ audio.pc = "render"
  /\ audio.remaining = 1
  /\ audio.written = kAudioBlockSize - 1
  /\ audio.available < (kAudioBufferSize - audio.checked) + audio.written

(***************************************************************************)
(* Properties of the parameter writes.                                     *)
(***************************************************************************)
\* C11: SetParameter(index, value) changes exactly one byte of the patch,
\* the field at index, and leaves every other field as it was; a read of
\* that index then returns value; for every index inside the patch.
SetParameterWritesOneByte ==
  [][\A index \in PatchIndex, value \in WriteValues :
       SetParameter(index, value) =>
         /\ patch_' = [i \in PatchIndex |->
                         IF i = index THEN value ELSE patch_[i]]
         /\ GetParameter(patch_', index) = value]_vars

\* A write has changed one field of the default patch.
OneByteWritten ==
  /\ history.op = "SetParameter"
  /\ \E index \in PatchIndex :
       /\ patch_[index] # DefaultPatch[index]
       /\ \A i \in PatchIndex \ {index} : patch_[i] = DefaultPatch[i]

\* C12: a data-entry control change writes, through SetParameter() and with
\* its side effects, the parameter selected by the last NRPN-MSB, and only
\* if that number is inside the patch; before any NRPN-MSB (number 255) and
\* for a number outside the patch it changes no patch field and has no side
\* effect.
DataEntryWritesSelected ==
  [][\A value \in DispatchControllerValues :
       ControlChange("kDataEntryMsb", value) =>
         IF nrpn_parameter_number_ < kNumPatchParameters
         THEN /\ patch_' = [i \in PatchIndex |->
                              IF i = nrpn_parameter_number_
                              THEN value ELSE patch_[i]]
              /\ SetParameterEffect(nrpn_parameter_number_, value)
         ELSE /\ UNCHANGED engineVars
              /\ UNCHANGED voiceVars]_vars

\* A data entry has written the swing selected before it, and the note
\* controller has its copy.
DataEntryWritten ==
  /\ history.op = "ControlChange"
  /\ nrpn_parameter_number_ = PRM_ARP_SWING
  /\ patch_[PRM_ARP_SWING] = 127
  /\ controller_.swing = 127

(***************************************************************************)
(* Properties of Voice::Audio().                                           *)
(***************************************************************************)
\* What the patch makes of the channels.
ChannelAccepted ==
  \A channel \in Channels :
    CheckChannel(patch_, channel) <=>
      \/ patch_[PRM_KBD_MIDI_CHANNEL] = 0
      \/ patch_[PRM_KBD_MIDI_CHANNEL] = channel + 1

\* What the two omni messages leave behind.
OmniSwitched ==
  /\ \A channel \in Channels :
       OmniModeOff(channel) =>
         \A other \in Channels :
           CheckChannel(patch_', other) <=> other = channel
  /\ OmniModeOn => \A other \in Channels : CheckChannel(patch_', other)

\* C18: CheckChannel(c) accepts every channel when the stored channel is 0
\* (omni) and otherwise exactly the channel c with stored channel c + 1;
\* after OmniModeOff(c) it accepts c and no other channel; after
\* OmniModeOn() it accepts every channel.
ChannelFilterFollowsOmni ==
  []ChannelAccepted /\ [][OmniSwitched]_vars

\* OmniModeOff(15) has left the engine listening to channel 15 alone.
ListeningToLastChannel ==
  /\ history.op = "OmniModeOff"
  /\ patch_[PRM_KBD_MIDI_CHANNEL] = 16
  /\ CheckChannel(patch_, 15)
  /\ \A channel \in 0 .. 14 : ~CheckChannel(patch_, channel)

(***************************************************************************)
(* Properties of the oscillator increments.                                *)
(***************************************************************************)
\* The octaves to add to pitch for it to reach the floor.
OctavesBelow(pitch, floor) ==
  IF pitch >= floor THEN 0 ELSE (floor - pitch + kOctave - 1) \div kOctave

\* The table looked up at pitch raised by whole octaves into the table's
\* octave, the result shifted right by the number of octaves added.
TransposedIncrement(pitch) ==
  LET k == OctavesBelow(pitch, kPitchTableStart)
  IN Shr(OscillatorIncrements(
           Shr(pitch + k * kOctave - kPitchTableStart, 1)), k)

\* The probe holds the increment resolved for an assembled pitch.
IncrementEvaluated == "increment" \in DOMAIN probe

\* C15: for an assembled pitch inside the wrapping window and below the
\* start of the pitch table, Voice::Control() resolves the increment of the
\* pitch raised by whole octaves into the table, shifted right by the number
\* k of octaves added: increment(p) = table(p + k * octave) >> k.  A pitch
\* below the wrapping window is first raised into it by whole octaves, which
\* are not counted in k: its increment is that of the wrapped pitch.
IncrementTransposed ==
  IncrementEvaluated =>
    /\ (probe.pitch >= kLowestNote /\ probe.pitch < kPitchTableStart) =>
         probe.increment = TransposedIncrement(probe.pitch)
    /\ probe.pitch < kLowestNote =>
         probe.increment =
           TransposedIncrement(
             probe.pitch
             + OctavesBelow(probe.pitch, kLowestNote) * kOctave)

\* Note 60 resolved three octaves below the table.
IncrementOfMiddleNote ==
  /\ IncrementEvaluated
  /\ probe.pitch = 60 * 128
  /\ OctavesBelow(probe.pitch, kPitchTableStart) = 3
  /\ probe.increment = Shr(OscillatorIncrements(0), 3)

\* C15 as first stated: every assembled pitch below the start of the pitch
\* table resolves to table(p + k * octave) >> k, k the octaves added.
IncrementTransposedBelowTable ==
  (IncrementEvaluated /\ probe.pitch < kPitchTableStart) =>
    probe.increment = TransposedIncrement(probe.pitch)

(***************************************************************************)
(* Properties of SynthesisEngine::Audio().                                 *)
(***************************************************************************)
\* C17: every call of SynthesisEngine::Audio() moves the decimation counter
\* by one modulo 4, advances the noise generator once on the calls that
\* bring the counter back to 0 and not at all on the others, and then
\* renders one sample of the voice, which blends the noise as it then is.
NoiseAdvancesOneCallInFour ==
  [][audio'.audios = audio.audios + 1 =>
       /\ audio'.decimation = (audio.decimation + 1) % 4
       /\ audio'.updates =
            audio.updates + (IF audio'.decimation = 0 THEN 1 ELSE 0)
       /\ audio'.decimation # 0 => rng_state_' = rng_state_
       /\ audio'.renders = audio.renders + 1
       /\ VoiceAudio(RandomStateMsb(rng_state_'))]_vars

\* A block of four samples of a sounding voice has been rendered and the
\* noise generator has advanced once.
BlockRenderedNoiseAdvancedOnce ==
  /\ ~dead_
  /\ audio.audios = 4
  /\ audio.renders = 4
  /\ audio.updates = 1

\* C17 as first stated: every call of SynthesisEngine::Audio() advances the
\* noise generator once and renders one sample.
NoiseAdvancesEveryCall ==
  [][audio'.audios = audio.audios + 1 =>
       /\ audio'.updates = audio.updates + 1
       /\ audio'.renders = audio.renders + 1]_vars

\* C14: whenever the dead flag is set, Voice::Audio() sets the sample to
\* 128 and changes nothing else of the voice: no oscillator is rendered or
\* advanced and the phase kept for the hard sync is not updated.
DeadVoiceRendersSilence ==
  [][(audio'.renders = audio.renders + 1 /\ dead_) =>
       /\ signal_' = 128
       /\ UNCHANGED << oscillator_, osc1_phase_msb_, envelope_, dead_,
                       pitch_increment_, pitch_target_, pitch_value_,
                       voice_modulation_sources_, modulation_destinations_,
                       dst >>]_vars

\* A voice that was rendered while it sounded has died, and a sample has
\* been rendered since: the oscillators are where the voice left them.
DeadVoiceRendered ==
  /\ dead_
  /\ audio.renders > 0
  /\ signal_ = 128
  /\ oscillator_[0].phase # 0
  /\ oscillator_[1].phase # 0

(***************************************************************************)
(* Properties of Voice::Trigger().                                         *)
(***************************************************************************)
\* What a trigger that is not tied does: both envelopes in the attack
\* stage, the three phases at 0, the velocity source at velocity << 1.
StartsOver(velocity) ==
  /\ \A i \in DOMAIN envelope_ :
       envelope_'[i] = [envelope_[i] EXCEPT !.stage = ATTACK]
  /\ \A i \in Oscillators :
       oscillator_'[i] = [oscillator_[i] EXCEPT !.phase = 0]
  /\ voice_modulation_sources_' =
       [voice_modulation_sources_ EXCEPT
          ![MOD_SRC_VELOCITY - kNumGlobalModulationSources] =
             (velocity * 2) % 256]

\* What a tied trigger leaves alone.
Tied == UNCHANGED << envelope_, oscillator_, voice_modulation_sources_ >>

\* What no trigger touches.
TriggerFrame ==
  UNCHANGED << dead_, modulation_destinations_, dst, signal_,
               osc1_phase_msb_, audio, rng_state_ >>

\* C16: Voice::Trigger() with legato = 0 puts both envelopes in the attack
\* stage, resets the phases of the three oscillators and sets the velocity
\* source to velocity << 1; with legato # 0 it leaves the envelopes, the
\* phases and the velocity source unchanged.  Either way it updates the
\* pitch target and the increment, and the pitch value only when it is at
\* the power-on value 0, which snaps to the target.
TriggerStartsOverUnlessTied ==
  [][\A note \in PitchNotes, velocity \in Velocities, legato \in BOOLEAN :
       Trigger(note, velocity, legato) =>
         /\ IF legato THEN Tied ELSE StartsOver(velocity)
         /\ TriggerFrame
         /\ pitch_value_ # 0 => pitch_value_' = pitch_value_
         /\ pitch_value_ = 0 => pitch_value_' = pitch_target_']_vars

\* A sounding voice that was rendered has been triggered again, not tied:
\* the phases are back at 0.
RetriggeredAfterRendering ==
  /\ history.op = "Trigger"
  /\ history.triggers = 2
  /\ ~dead_
  /\ audio.renders > 0
  /\ \A i \in Oscillators : oscillator_[i].phase = 0
  /\ \A i \in DOMAIN envelope_ : envelope_[i].stage = ATTACK

\* C16 as first stated: the same, a tied trigger updating nothing but the
\* pitch target and the increment.
TiedTriggerKeepsPitch ==
  [][\A note \in PitchNotes, velocity \in Velocities, legato \in BOOLEAN :
       Trigger(note, velocity, legato) =>
         /\ IF legato THEN Tied ELSE StartsOver(velocity)
         /\ TriggerFrame
         /\ legato => pitch_value_' = pitch_value_]_vars

(***************************************************************************)
(* Properties of the pitch step.                                           *)
(***************************************************************************)
\* x lies between a and b, inclusive.
Between(x, a, b) == (a <= x /\ x <= b) \/ (b <= x /\ x <= a)

\* The step from the pitch value reaches or crosses the target.
StepArrives ==
  \/ pitch_increment_ > 0 /\ pitch_value_ + pitch_increment_ >= pitch_target_
  \/ pitch_increment_ < 0 /\ pitch_value_ + pitch_increment_ <= pitch_target_

\* The value after a control tick: moved by the increment, never beyond
\* the target.
StepStaysInside ==
  /\ Between(pitch_value_', pitch_value_, pitch_target_)
  /\ IF StepArrives
     THEN pitch_value_' = pitch_target_
     ELSE pitch_value_' = pitch_value_ + pitch_increment_
  /\ pitch_target_' = pitch_target_

\* The increment after a control tick: 0 on arrival and from then on.
StepStopsOnArrival ==
  pitch_increment_' = IF StepArrives THEN 0 ELSE pitch_increment_

\* C20: each Voice::Control() tick moves pitch_value_ by pitch_increment_
\* and never leaves it beyond pitch_target_: the new value lies between
\* the previous one and the target, inclusive; when the step reaches or
\* crosses the target the value is the target exactly and the increment is
\* 0, and both stay so until the next Trigger().
PitchStepArrives ==
  [][history'.op = "VoiceControl" =>
       /\ StepStaysInside
       /\ StepStopsOnArrival
       /\ pitch_increment_ = 0 =>
            UNCHANGED << pitch_value_, pitch_increment_ >>]_vars

(***************************************************************************)
(* Properties of the first control tick of a note.                         *)
(***************************************************************************)
\* C19: after a trigger that is not tied (note 60, velocity 100) on an idle
\* engine with the default patch, one Control() tick leaves the dead flag
\* clear: Control() sets it only when both envelopes are dead, and an
\* envelope just triggered is not.
FreshNoteIsNotDead ==
  [][(history'.op = "Control" /\ history.op = "Trigger") =>
       /\ dead_' <=> \A i \in DOMAIN envelope_ : envelope_'[i].stage = DEAD
       /\ (\A i \in DOMAIN envelope_ : envelope_[i].stage = ATTACK) =>
            ~dead_']_vars

\* Note 60 was triggered with velocity 100 on the idle engine and Control()
\* has run once since.
FirstNoteControlled ==
  /\ history.op = "Control"
  /\ history.triggers = 1
  /\ audio.controls = 1
  /\ audio.available = 0
  /\ patch_ = DefaultPatch
  /\ pitch_target_ = 60 * 128
  /\ voice_modulation_sources_[MOD_SRC_VELOCITY - kNumGlobalModulationSources]
       = 200
  /\ \A i \in DOMAIN envelope_ : envelope_[i].stage = ATTACK
  /\ ~dead_

\* x is the bit by bit exclusive or of the bytes a and b.
IsXorOf(x, a, b) ==
  /\ x \in 0 .. 255
  /\ \A k \in 0 .. 7 :
       ((x \div 2^k) % 2 = 1) <=> ((a \div 2^k) % 2 # (b \div 2^k) % 2)

\* The probe holds an evaluation of the mix with the XOR option.
XorEvaluated == "combined" \in DOMAIN probe /\ probe.option = XOR

\* C13: with the XOR option the two oscillators are combined into the
\* exclusive or of their samples plus the mix-balance destination, modulo
\* 256: with a destination of 0 the exact exclusive or, for every pair of
\* samples.  That is the rendered sample when oscillator 1 has the vowel
\* shape; with any other shape the sub oscillator and the noise are blended
\* in afterwards.
XorCombinesExactly ==
  XorEvaluated =>
    /\ \E x \in 0 .. 255 :
         /\ IsXorOf(x, probe.osc_1, probe.osc_2)
         /\ probe.combined = (x + probe.balance) % 256
    /\ probe.balance = 0 =>
         IsXorOf(probe.combined, probe.osc_1, probe.osc_2)
    /\ (probe.balance = 0 /\ probe.shape = WAVEFORM_VOWEL) =>
         IsXorOf(probe.sample, probe.osc_1, probe.osc_2)

\* The samples 10110010 and 01101100 combined into 11011110.
XorOfExampleEvaluated ==
  /\ XorEvaluated
  /\ probe.balance = 0
  /\ probe.osc_1 = 178
  /\ probe.osc_2 = 108
  /\ probe.combined = 222
  /\ probe.shape = WAVEFORM_VOWEL
  /\ probe.sample = 222

\* C13 as first stated: with the XOR option and a mix-balance destination
\* of 0 the rendered sample is the exclusive or of the two samples.
XorSampleExact ==
  (XorEvaluated /\ probe.balance = 0) =>
    IsXorOf(probe.sample, probe.osc_1, probe.osc_2)

(***************************************************************************)
(* Properties of the slide a trigger starts.                               *)
(***************************************************************************)
\* Line 422 alone: (delta * increment) >> 15, before the test of line 423.
ComputedIncrement(value, target, P) ==
  ToInt16(Shr(ToInt16(target - value) * PortamentoIncrement(P[PRM_KBD_PORTAMENTO]),
              15))

\* The increment Trigger() leaves, given the one computed at line 422: the
\* computed one when it is not 0, else -1 below the current pitch and +1
\* otherwise, the target equal to the current pitch included.
TriggerIncrement(computed, value, target) ==
  IF computed # 0 THEN computed
  ELSE IF ToInt16(target - value) < 0 THEN -1 ELSE 1

SomeSynced == \E i \in 0 .. (kNumLfos - 1) : patch_[PRM_LFO_RATE_1 + i] < 16

\* C22: whenever at least one LFO is tempo-synced, lfo_reset_counter_ is
\* below num_lfo_reset_steps_ after any sequence of SetParameter(), NoteOn()
\* and sequencer step advances, a rate written to a smaller cadence included.
ResetCounterBelowCadence ==
  SomeSynced => lfo_reset_counter_ < num_lfo_reset_steps_

(***************************************************************************)
(* Properties of one matrix entry evaluated alone.                         *)
(***************************************************************************)
\* The probe holds the evaluation of a single entry.
EntryEvaluated == "before" \in DOMAIN probe

\* The entry at the last persisted position, the one the wheel rescales.
WheelScaled == probe.position = kSavedModulationMatrixSize - 1

\* C23: with the modulation-wheel source at 0 the wheel-scaled entry has no
\* effect on its destination, additive or amplitude, whatever its stored
\* amount and its source value: the destination is as loaded.
WheelAtZeroHasNoEffect ==
  (EntryEvaluated /\ WheelScaled /\ probe.wheel = 0) =>
    probe.after = probe.before


\* The amount the evaluated entry is applied with: (amount * wheel) >> 8 at
\* the last persisted position, the stored amount at every other one.
AppliedAmount ==
  IF WheelScaled THEN (probe.amount * probe.wheel) \div 256 ELSE probe.amount

\* The destination after one application of the entry with amount a, from
\* the source and to the destination the entry stores.
AppliedOnce(a) ==
  IF probe.destination = MOD_DST_VCA
  THEN IF a < 0
       THEN MulScale8(probe.before, Mix(255, 255 - probe.value, (0 - a) * 4))
       ELSE MulScale8(probe.before, Mix(255, probe.value, a * 4))
  ELSE Clip(ToInt16(probe.before + a * probe.value
                    - (IF RelativeSource(probe.source) THEN a * 128 ELSE 0)),
            0, 16383)

\* C24: the wheel rescaling applies to exactly one matrix entry, the last
\* persisted one (index kSavedModulationMatrixSize - 1): its source and its
\* destination are used unchanged, its amount is replaced by
\* (amount * wheel) >> 8, and it is evaluated once; an entry at any other
\* position is evaluated once with its stored amount.  An entry whose stored
\* amount is 0 is not evaluated, and no other destination is touched.
WheelRescalesLastPersisted ==
  EntryEvaluated =>
    /\ probe.others
    /\ probe.amount = 0 => probe.after = probe.before
    /\ probe.amount # 0 => probe.after = AppliedOnce(AppliedAmount)

\* The last persisted entry, amount 63 from the velocity at 255 to the pulse
\* width, evaluated with the wheel at 128: applied once with amount 31.
HalfWheelEntryEvaluated ==
  /\ EntryEvaluated
  /\ WheelScaled
  /\ probe.wheel = 128
  /\ probe.amount = 63
  /\ probe.source = MOD_SRC_VELOCITY
  /\ probe.value = 255
  /\ probe.destination = MOD_DST_PWM_1
  /\ probe.before = 0
  /\ probe.after = 31 * 255


\* C25: for an additive matrix entry whose source is LFO 1, LFO 2, pitch
\* bend or note, a source value of 128 leaves the destination accumulator
\* unchanged for every amount in [-63, 63]; for every other source the entry
\* adds amount * source_value, clamped, with no centering bias.
CenteredSourceAtMidScale ==
  (EntryEvaluated /\ probe.destination # MOD_DST_VCA /\ probe.amount # 0) =>
    /\ (RelativeSource(probe.source) /\ probe.value = 128) =>
         probe.after = probe.before
    /\ ~RelativeSource(probe.source) =>
         probe.after =
           Clip(ToInt16(probe.before + AppliedAmount * probe.value), 0, 16383)

(***************************************************************************)
(* Properties of UpdateModulationIncrements() on chosen rates.             *)
(***************************************************************************)
\* The probe holds an evaluation of the LFO rates.
RatesEvaluated == "steps" \in DOMAIN probe

\* The product of (1 + rate) over the tempo-synced ones of the two rates,
\* and 0 when there is none.
CadenceProduct(rate_1, rate_2) ==
  IF rate_1 < 16 /\ rate_2 < 16 THEN (1 + rate_1) * (1 + rate_2)
  ELSE IF rate_1 < 16 THEN 1 + rate_1
  ELSE IF rate_2 < 16 THEN 1 + rate_2
  ELSE 0

\* C26: after UpdateModulationIncrements() the reset cadence
\* num_lfo_reset_steps_ is the product of (1 + rate) over the tempo-synced
\* LFOs, kept modulo 256 in the 8-bit variable: every product but 16 * 16 is
\* stored whole, 16 * 16 is stored as 0; it is 0 when no LFO is synced.
CadenceIsProductModulo ==
  RatesEvaluated =>
    /\ probe.steps = CadenceProduct(probe.rate_1, probe.rate_2) % 256
    /\ (probe.rate_1 = 15 /\ probe.rate_2 = 15) <=>
         probe.steps # CadenceProduct(probe.rate_1, probe.rate_2)

\* Both rates at 15: the cadence 16 * 16 is stored as 0.
FullCadenceEvaluated ==
  /\ RatesEvaluated
  /\ probe.rate_1 = 15
  /\ probe.rate_2 = 15
  /\ probe.steps = 0
  /\ probe.to_reset = {0, 1}

\* C26 as first stated: the cadence is the product, 16 * 16 included.
CadenceIsProduct ==
  RatesEvaluated => probe.steps = CadenceProduct(probe.rate_1, probe.rate_2)


\* The rate evaluated for LFO i.
RateOf(i) == IF i = 0 THEN probe.rate_1 ELSE probe.rate_2

\* C27: after UpdateModulationIncrements(), LFO i is marked for reset (bit i
\* of lfo_to_reset_) exactly when its rate parameter is below 16; an LFO
\* with a rate of 16 or more takes its increment from the lookup table at
\* index rate - 16, and the step advance that resyncs leaves its phase
\* where Increment() put it; the phase of a marked LFO is then 0.
FreeRunningLfoKeepsPhase ==
  RatesEvaluated =>
    \A i \in 0 .. (kNumLfos - 1) :
      /\ i \in probe.to_reset <=> RateOf(i) < 16
      /\ RateOf(i) >= 16 =>
           /\ probe.increments[i] = LfoIncrement(RateOf(i) - 16)
           /\ probe.resynced[i] = (probe.phase + probe.increments[i]) % 65536
      /\ RateOf(i) < 16 => probe.resynced[i] = 0

\* LFO 1 synced at rate 15 and LFO 2 free-running at rate 16, resynced from
\* the phase 1000: LFO 2 is not marked and has moved on by its increment.
FreeRunningLfoResynced ==
  /\ RatesEvaluated
  /\ probe.rate_1 = 15
  /\ probe.rate_2 = 16
  /\ probe.phase = 1000
  /\ probe.to_reset = {0}
  /\ probe.resynced[0] = 0
  /\ probe.resynced[1] = 1000 + LfoIncrement(0)

(***************************************************************************)
(* Properties of the reception of a patch.                                 *)
(***************************************************************************)
\* MidiTask has just read a byte / is the step being taken.
MidiTaskStep == transfer'.op = "MidiTask"

\* The header and all the data bytes of the message have been read: the
\* next byte is the one that follows the data.
DataReceived ==
  /\ midi_io # << >>
  /\ sysex_reception_state_ = "RECEIVING_FOOTER"
  /\ sysex_bytes_received_ = (kSerializedPatchSize + 1) * 2

\* The byte that follows the data is 0xf7, the sum of the data bytes is the
\* checksum byte received, and the image passes CheckBuffer.
Accepted ==
  /\ Head(midi_io) = 247
  /\ ImageSum(transfer.sent, 0, kSerializedPatchSize - 1)
       = load_save_buffer_[kSerializedPatchSize]
  /\ CheckBuffer(transfer.sent)

\* What the reception holds when the data have been read: the image sent
\* and the sum of its bytes.
HoldsDataSent ==
  /\ \A i \in ImageIndex : load_save_buffer_[i] = transfer.sent[i]
  /\ sysex_reception_checksum_
       = ImageSum(transfer.sent, 0, kSerializedPatchSize - 1)

\* C28: on the byte that follows the data, Patch::SysExReceive unpacks the
\* received image into the patch and ends in RECEPTION_OK exactly when the
\* byte is 0xf7, the sum modulo 256 of the kSerializedPatchSize data bytes
\* is the checksum byte received, and CheckBuffer passes.  In every other
\* case no patch field changes; the state becomes RECEPTION_ERROR, unless
\* the byte is 0xf0, which starts a reception over (RECEIVING_HEADER).
FooterDecidesReception ==
  [][(MidiTaskStep /\ DataReceived) =>
       /\ HoldsDataSent
       /\ IF Accepted
          THEN /\ patch_' = Unpack(patch_, transfer.sent)
               /\ sysex_reception_state_' = "RECEPTION_OK"
          ELSE /\ patch_' = patch_
               /\ sysex_reception_state_' =
                    IF Head(midi_io) = 240 THEN "RECEIVING_HEADER"
                                           ELSE "RECEPTION_ERROR"]_vars

\* A well-formed message has been read to its end and its patch installed.
PatchReceived ==
  /\ transfer.op = "MidiTask"
  /\ transfer.kind = "good"
  /\ transfer.byte = 247
  /\ midi_io = << >>
  /\ sysex_reception_state_ = "RECEPTION_OK"
  /\ patch_ = Unpack(DefaultPatch, Pack(SentPatch))
  /\ patch_ # DefaultPatch

\* C28 as first stated: in every other case the state becomes
\* RECEPTION_ERROR.
FooterAcceptsOrFails ==
  [][(MidiTaskStep /\ DataReceived) =>
       IF Accepted
       THEN /\ patch_' = Unpack(patch_, transfer.sent)
            /\ sysex_reception_state_' = "RECEPTION_OK"
       ELSE /\ patch_' = patch_
            /\ sysex_reception_state_' = "RECEPTION_ERROR"]_vars


\* C29: a SysEx message whose header differs from the expected 8-byte
\* header never modifies the patch: no byte of it makes SysExReceive unpack
\* the buffer or end in RECEPTION_OK, whatever load_save_buffer_ holds.
WrongHeaderLeavesPatch ==
  [][(MidiTaskStep /\ transfer.kind \in {"command", "short"}) =>
       /\ patch_' = patch_
       /\ sysex_reception_state_' # "RECEPTION_OK"]_vars


\* C30: with the bytes of a transfer read one per run of MidiTask and the
\* editor's EEPROM load and save run in between, a transfer that ends in
\* RECEPTION_OK installs exactly the patch bytes the sender transmitted.
ReceptionInstallsSent ==
  [][(MidiTaskStep /\ sysex_reception_state_' = "RECEPTION_OK"
        /\ sysex_reception_state_ # "RECEPTION_OK") =>
       patch_' = Unpack(patch_, transfer.sent)]_vars


(***************************************************************************)
(* Properties of the round trip of a patch through SysEx.                  *)
(***************************************************************************)
\* The fields of a patch that Pack writes: the first 28 parameters, the
\* saved matrix entries, the sequence and the name.
PersistedIndex ==
  (0 .. (PRM_MOD_SOURCE + 3 * kSavedModulationMatrixSize - 1))
    \cup (PRM_SEQUENCE .. (PRM_SEQUENCE + 7))
    \cup (PRM_NAME .. (PRM_NAME + kPatchNameSize - 1))
Persisted(P) == [k \in PersistedIndex |-> P[k]]

\* The image of p passes CheckBuffer and its saved matrix entries have
\* source and destination ids below 16.
Sendable(p) ==
  /\ CheckBuffer(Pack(p))
  /\ \A i \in 0 .. (kSavedModulationMatrixSize - 1) :
       p[ModSource(i)] < 16 /\ p[ModDestination(i)] < 16

\* C31: the byte stream SysExSend writes for a patch p whose image passes
\* CheckBuffer and whose matrix ids are below 16, fed to SysExReceive, ends
\* in RECEPTION_OK with every persisted field of the patch equal to p's
\* (and the other fields as they were).
SentPatchReceived ==
  [][\A p \in RoundTripPatches :
       (/\ MidiTaskStep
        /\ transfer.kind = "good"
        /\ transfer.sent = Pack(p)
        /\ Sendable(p)
        /\ Len(midi_io) = 1) =>
         /\ sysex_reception_state_' = "RECEPTION_OK"
         /\ Persisted(patch_') = Persisted(p)
         /\ \A k \in PatchIndex \ PersistedIndex : patch_'[k] = patch_[k]]_vars

\* The patch with matrix ids 15 and a negative amount has been received
\* over another one, after a message that was cut in its data.
GateEntryReceived ==
  /\ transfer.op = "MidiTask"
  /\ transfer.kind = "good"
  /\ transfer.count = 2
  /\ midi_io = << >>
  /\ sysex_reception_state_ = "RECEPTION_OK"
  /\ patch_[ModSource(0)] = MOD_SRC_GATE
  /\ patch_[ModDestination(0)] = 15
  /\ patch_[ModAmount(0)] = 193
  /\ patch_[PRM_NAME + kPatchNameSize - 1] = 128


(***************************************************************************)
(* Properties of the reception states.                                     *)
(***************************************************************************)
\* C32: a 0xf0 byte fed to Patch::SysExReceive in any reception state
\* starts a reception over: the checksum is cleared and the 0xf0 is counted
\* as the first byte of the header, in RECEIVING_HEADER; in RECEPTION_OK
\* and RECEPTION_ERROR any other byte changes nothing of the reception or
\* of the patch.
StartByteRestarts ==
  [][MidiTaskStep =>
       /\ Head(midi_io) = 240 =>
            /\ sysex_reception_state_' = "RECEIVING_HEADER"
            /\ sysex_bytes_received_' = 1
            /\ sysex_reception_checksum_' = 0
            /\ load_save_buffer_' = load_save_buffer_
            /\ patch_' = patch_
       /\ (/\ Head(midi_io) # 240
           /\ sysex_reception_state_ \in {"RECEPTION_OK", "RECEPTION_ERROR"}) =>
            /\ sysex_reception_state_' = sysex_reception_state_
            /\ sysex_bytes_received_' = sysex_bytes_received_
            /\ sysex_reception_checksum_' = sysex_reception_checksum_
            /\ load_save_buffer_' = load_save_buffer_
            /\ patch_' = patch_]_vars

\* A second message has started after one that stopped in its data: the
\* buffer holds the first bytes of the image and no checksum byte.
RestartedInData ==
  /\ transfer.op = "MidiTask"
  /\ transfer.count = 2
  /\ transfer.byte = 240
  /\ sysex_reception_state_ = "RECEIVING_HEADER"
  /\ sysex_bytes_received_ = 1
  /\ load_save_buffer_[PRM_OSC_SHAPE_1] = WAVEFORM_SQUARE
  /\ load_save_buffer_[kSerializedPatchSize] = 0
  /\ patch_ = DefaultPatch


\* C33: whatever bytes are fed to Patch::SysExReceive, load_save_buffer_ is
\* read and written at an index of at most kSerializedPatchSize, the header
\* is read inside its 8 bytes, and the 8-bit count of bytes received grows
\* by one without wrapping on each byte read in RECEIVING_DATA.
ReceptionIndexInRange ==
  [][MidiTaskStep =>
       /\ (Head(midi_io) # 240 /\ sysex_reception_state_ = "RECEIVING_DATA") =>
            /\ sysex_bytes_received_ \div 2 <= kSerializedPatchSize
            /\ sysex_bytes_received_' = sysex_bytes_received_ + 1
            /\ sysex_bytes_received_' <= 255
       /\ (Head(midi_io) # 240 /\ sysex_reception_state_ = "RECEIVING_HEADER") =>
            sysex_bytes_received_ < Len(sysex_header)]_vars

\* The last byte of the buffer has been written from the two nibbles that
\* follow the data of a message with too many data bytes.
LastBufferByteWritten ==
  /\ transfer.op = "MidiTask"
  /\ transfer.kind = "long"
  /\ sysex_reception_state_ = "RECEIVING_FOOTER"
  /\ sysex_bytes_received_ = (kSerializedPatchSize + 1) * 2
  /\ load_save_buffer_[kSerializedPatchSize] = Pack(SentPatch)[0]
  /\ load_save_buffer_[kSerializedPatchSize] # 0


(***************************************************************************)
(* Properties of the load/save page.                                       *)
(***************************************************************************)
\* The step is an operation of the editor, and which one.
EditorStep(op) == edit'.count = edit.count + 1 /\ edit'.op = op

\* Knob 3 is turned out of the load position while the action is load.
LeavesLoad ==
  /\ EditorStep("HandleLoadSaveInput")
  /\ edit'.definition = 3
  /\ action_ = "ACTION_LOAD"
  /\ action_' # "ACTION_LOAD"

\* C34: when the action knob leaves LOAD, current_patch_number_ returns to
\* previous_patch_number_ and every persisted field of the patch (with
\* matrix ids below 16) is again what it was when the load/save mode was
\* entered, whatever was loaded in between.
LeavingLoadRestores ==
  [][LeavesLoad =>
       /\ current_patch_number_' = previous_patch_number_
       /\ Sendable(edit.entry) => Persisted(patch_') = Persisted(edit.entry)]_vars

\* The stored patch was loaded over an edited patch, and leaving LOAD has
\* brought the edited patch and its slot number back.
EditedPatchRestored ==
  /\ edit.op = "HandleLoadSaveInput"
  /\ edit.definition = 3
  /\ action_ = "ACTION_EXIT"
  /\ transfer.op = "EepromLoad"
  /\ load_save_buffer_[28 + 2 * kSavedModulationMatrixSize + 8]
       = StoredPatch[PRM_NAME]
  /\ current_patch_number_ = 0
  /\ patch_[PRM_FILTER_RESONANCE] = 63
  /\ patch_[PRM_NAME] = DefaultPatch[PRM_NAME]
  /\ Persisted(patch_) = Persisted(edit.entry)

\* C35: Editor::EnterLoadSaveMode writes the patch to the EEPROM only when
\* the load/save page is already the current page and the action is SAVE.
SavesOnlyFromLoadSavePage ==
  [][(EditorStep("EnterLoadSaveMode") /\ edit'.saved) =>
       /\ current_page_ = PAGE_LOAD_SAVE
       /\ action_ = "ACTION_SAVE"]_vars


(***************************************************************************)
(* Properties of the loads from the EEPROM.                                *)
(***************************************************************************)
\* The bytes CheckBuffer refuses: a parameter of bytes 6..25 or a byte of
\* the name above 128.
Refused(image) ==
  \E i \in (6 .. 25) \cup ((kSerializedPatchSize - kPatchNameSize)
                             .. (kSerializedPatchSize - 1)) : image[i] > 128

\* The fields of patch P are those the bytes of image stand for.
HoldsFieldsOf(P, image) ==
  /\ \A k \in 0 .. 27 : P[k] = image[k]
  /\ \A i \in 0 .. (kSavedModulationMatrixSize - 1) :
       /\ P[ModSource(i)] = image[28 + 2 * i] % 16
       /\ P[ModDestination(i)] = image[28 + 2 * i] \div 16
       /\ P[ModAmount(i)] = image[29 + 2 * i]
  /\ \A j \in 0 .. 7 :
       /\ P[PRM_SEQUENCE + j] = image[28 + 2 * kSavedModulationMatrixSize + j]
       /\ P[PRM_NAME + j] = image[28 + 2 * kSavedModulationMatrixSize + 8 + j]

LoadsSlot(slot) ==
  /\ transfer'.op = "EepromLoad"
  /\ transfer'.edits = transfer.edits + 1
  /\ \A i \in ImageIndex : load_save_buffer_'[i] = eeprom_[slot][i]

\* C36: EepromLoad of a slot with a byte among 6..25 or a name byte above
\* 128 changes no field of the patch but name[0], which becomes '?'; the
\* load of any other slot gives every persisted field the value the slot's
\* bytes stand for.
LoadChecksSlot ==
  [][\A slot \in EepromSlots \cup OtherSlots :
       LoadsSlot(slot) =>
         IF Refused(eeprom_[slot])
         THEN patch_' = [patch_ EXCEPT ![PRM_NAME] = 63]
         ELSE /\ HoldsFieldsOf(patch_', eeprom_[slot])
              /\ \A k \in PatchIndex \ PersistedIndex : patch_'[k] = patch_[k]]_vars

\* A slot refused for its name alone has been loaded over a patch loaded
\* from a slot with bytes at the limit.
RefusedForNameLoaded ==
  /\ transfer.op = "EepromLoad"
  /\ transfer.edits = 2
  /\ \A i \in ImageIndex : load_save_buffer_[i] = EepromAtPowerOn[3][i]
  /\ patch_[PRM_NAME] = 63
  /\ patch_[6] = 128
  /\ patch_[ModDestination(0)] = 10


(***************************************************************************)
(* Properties of the hard sync of oscillator 2.                            *)
(***************************************************************************)
\* Voice::Audio() renders a sample of a live voice.
RendersSample == audio'.renders = audio.renders + 1 /\ ~dead_

\* C37: when a live voice renders a sample, the phase of oscillator 2 is
\* taken back to zero exactly when the option of oscillator 1 is SYNC and
\* the most significant byte of oscillator 1's phase is lower than it was
\* at the previous rendered sample; otherwise oscillator 2 keeps the phase
\* its own rendering gave it.
SyncResetsOnWrap ==
  [][RendersSample =>
       IF /\ patch_[PRM_OSC_OPTION_1] = SYNC
          /\ Shr(oscillator_'[0].phase, 8) < audio.osc1_msb
       THEN oscillator_'[1].phase = 0
       ELSE oscillator_'[1] = OscillatorRender(oscillator_[1])]_vars


(***************************************************************************)
(* Properties of the parameter editor.                                     *)
(***************************************************************************)
\* The tempo a position of the first knob of the arpeggiator page asks for:
\* the 7 bits of the position spread over 24..240.
TempoRequested(value) == 24 + ((value \div 8) * (240 - 24 + 1)) \div 128

\* The tempo the editor stores for the tempo it is asked for.
TempoStored(requested) == IF requested < 40 THEN 0 ELSE requested

\* The editor is on the arpeggiator page, and the encoder on its first knob.
OnTempoKnob == current_page_ = PAGE_PLAY_ARP /\ current_controller_ = 0

\* C38: with the editor at work the tempo of the patch and of the note
\* controller is never in 1..39; a knob position that asks for a tempo below
\* 40 stores 0, and a step of the encoder from the stored 0 counts from 39:
\* up stores 40, down stores 0 again.
EditorTempoNeverBelowForty ==
  /\ [](patch_[PRM_ARP_TEMPO] \notin 1 .. 39 /\ controller_.tempo \notin 1 .. 39)
  /\ [][\A value \in {0, 80, 1023} :
          (current_page_ = PAGE_PLAY_ARP /\ HandleInput(0, value)) =>
            /\ patch_'[PRM_ARP_TEMPO] = TempoStored(TempoRequested(value))
            /\ controller_'.tempo = TempoStored(TempoRequested(value))]_vars
  /\ [][\A direction \in Directions :
          (OnTempoKnob /\ HandleIncrement(direction)) =>
            LET read == IF patch_[PRM_ARP_TEMPO] = 0
                        THEN 39 ELSE patch_[PRM_ARP_TEMPO]
            IN patch_'[PRM_ARP_TEMPO] =
                 IF read + direction > 240 THEN patch_[PRM_ARP_TEMPO]
                 ELSE TempoStored(read + direction)]_vars

\* One step up of the encoder from the external clock has stored 40.
SteppedUpFromExternalClock ==
  /\ edit.op = "HandleEditIncrement"
  /\ edit.turns = 2
  /\ edit.page = PAGE_PLAY_ARP
  /\ edit.written = << PRM_ARP_TEMPO, 40 >>
  /\ patch_[PRM_ARP_TEMPO] = 40
  /\ controller_.tempo = 40


\* A byte as the editor compares it: signed for a parameter in UNIT_INT8.
AsCompared(parameter, byte) ==
  IF parameter.unit = "UNIT_INT8" THEN ToInt8(byte) ELSE byte

\* The values the definition of a parameter allows.
AllowedValues(parameter) ==
  AsCompared(parameter, parameter.min_value)
    .. AsCompared(parameter, parameter.max_value)

\* C40: a step of the encoder on a parameter other than the tempo changes
\* the value by the step when the result is within the bounds of the
\* parameter's definition (signed for UNIT_INT8) and changes nothing
\* otherwise; nothing else is written.
IncrementStaysInRange ==
  [][\A direction \in Directions :
       (/\ current_page_ < kNumPages
        /\ PageDefinition(current_page_).ui_type = "PARAMETER_EDITOR"
        /\ HandleIncrement(direction)) =>
         LET parameter == parameter_definition(edit'.definition)
         IN parameter.id # PRM_ARP_TEMPO =>
              IF current_page_ = PAGE_MOD_MATRIX /\ parameter.id = PRM_MOD_ROW
              THEN /\ patch_' = patch_
                   /\ subpage_' =
                        IF subpage_ + direction \in AllowedValues(parameter)
                        THEN subpage_ + direction ELSE subpage_
              ELSE LET index == parameter.id + 3 * subpage_'
                       before == AsCompared(parameter, patch_[index])
                   IN /\ patch_' =
                           [patch_ EXCEPT ![index] =
                              IF before + direction \in AllowedValues(parameter)
                              THEN ToUint8(before + direction) ELSE @]
                      /\ edit'.written # << >> =>
                           /\ edit'.written[1] = index
                           /\ AsCompared(parameter, edit'.written[2])
                                \in AllowedValues(parameter)]_vars

\* A step down from the lowest range of oscillator 1 has written nothing.
SteppedBelowLowestRange ==
  /\ edit.op = "HandleEditIncrement"
  /\ edit.page = PAGE_OSC_OSC_1
  /\ edit.definition = 2
  /\ edit.written = << >>
  /\ patch_[PRM_OSC_RANGE_1] = ToUint8(-12)


(***************************************************************************)
(* Properties of the pages.                                                *)
(***************************************************************************)
\* Editor::ToggleGroup has run for a group other than load/save.
ToggledGroup == EditorStep("ToggleGroup")

\* C39: after ToggleGroup(g), g other than load/save, the current page is a
\* page of the table whose group is g, and every index of page_definition_
\* read during the call is below kNumPages.
ToggleGroupStaysInTable ==
  [][ToggledGroup =>
       /\ current_page_' < kNumPages
       /\ PageDefinition(current_page_').group = edit'.group
       /\ \A i \in edit'.reads : i < kNumPages]_vars

=============================================================================
